---- MODULE Spec2Model ----
(***************************************************************************)
(* Model of the transcript chunking and multi-keyword retrieval pipeline   *)
(* of the newsletter generator:                                            *)
(*   - generate_newsletter.py: aggregate_search_results and its caller     *)
(*     main (specification Spec), and two calls in a row (SpecRerun);      *)
(*   - fetch_youtube_data.py: chunk_transcript_by_time (specification      *)
(*     SpecChunk).                                                         *)
(* Distances, scores and times are floats in the program; the model draws  *)
(* them from small sets of integers, on which the program's arithmetic     *)
(* (1 - distance, start + duration, comparisons) is exact.                 *)
(***************************************************************************)
EXTENDS Integers, Sequences, FiniteSets, TLC

(***************************************************************************)
(* Bounds of the model.                                                    *)
(***************************************************************************)
\* longest keyword list typed at the prompt
MaxKeywords == 2
\* most hits one query returns (n_results_per_keyword, 10 in main)
MaxHits == 2
\* longest transcript (snippets)
MaxSnippets == 2
\* latest snippet start_time
MaxStart == 3
\* longest snippet duration
MaxDuration == 2
\* widest chunk_duration
MaxWindow == 3

Keywords == {"A", "B"}

\* Distances the vector store returns.  The collection is created without a
\* distance function (chromadb_setup.py, create_collection), so that distances
\* are squared L2 distances: non-negative, and not bounded by 1.
Distances == {0, 1, 2}

(***************************************************************************)
(* The entries of the 'youtube_transcripts' collection.  chromadb_setup.py *)
(* keys an entry by video_id, chunk_start_time and chunk_end_time, so two  *)
(* entries may share (video_id, chunk_start_time).                         *)
(***************************************************************************)
StoreEntries ==
    { [document |-> "t1",
       metadata |-> [video_id |-> "v1", chunk_start_time |-> 0, chunk_end_time |-> 60]],
      [document |-> "t2",
       metadata |-> [video_id |-> "v1", chunk_start_time |-> 0, chunk_end_time |-> 30]],
      [document |-> "t3",
       metadata |-> [video_id |-> "v2", chunk_start_time |-> 0, chunk_end_time |-> 60]] }

Hits == [entry : StoreEntries, distance : Distances]

\* A ranked answer of collection.query: distinct entries, nearest first.
RankedLists ==
    UNION { { s \in [1..n -> Hits] :
                /\ \A i, j \in 1..n : i < j => s[i].entry # s[j].entry
                /\ \A i \in 1..n : i < n => s[i].distance <= s[i + 1].distance }
            : n \in 0..MaxHits }

\* The aligned lists results['documents'][0], ['metadatas'][0], ['distances'][0].
QueryResult(s) ==
    [documents |-> [i \in 1..Len(s) |-> s[i].entry.document],
     metadatas |-> [i \in 1..Len(s) |-> s[i].entry.metadata],
     distances |-> [i \in 1..Len(s) |-> s[i].distance]]

QueryResults == { QueryResult(s) : s \in RankedLists }

NotQueried == [documents |-> <<"?">>, metadatas |-> <<>>, distances |-> <<>>]

\* The keyword lists typed at the prompt.  The index treats all keywords
\* alike, so the first keyword of a list is named "A".
KeywordLists ==
    UNION { { kws \in [1..n -> Keywords] : n > 0 => kws[1] = "A" }
            : n \in 0..MaxKeywords }

(***************************************************************************)
(* aggregate_search_results: the merge of one hit into all_results.        *)
(* all_results is a dict; the model keeps its values in insertion order    *)
(* (assigning to a key the dict already holds keeps the key's position).   *)
(***************************************************************************)
ChunkId(metadata) == <<metadata.video_id, metadata.chunk_start_time>>

\* the distance itself taken as the score
RelevanceScore_Distance(distance) == distance

RelevanceScore(distance) == 1 - distance

Position(all_results, chunk_id) ==
    IF \E i \in 1..Len(all_results) : all_results[i].chunk_id = chunk_id
    THEN CHOOSE i \in 1..Len(all_results) : all_results[i].chunk_id = chunk_id
    ELSE 0

NewChunkData(doc, metadata, distance, keyword) ==
    [chunk_id |-> ChunkId(metadata),
     text |-> doc,
     metadata |-> metadata,
     relevance_score |-> RelevanceScore(distance),
     matching_keywords |-> <<keyword>>]

Contains(seq, x) == \E i \in 1..Len(seq) : seq[i] = x

\* the keyword appended without the membership test
AddKeyword_Always(chunk_data, keyword) ==
    [chunk_data EXCEPT !.matching_keywords = Append(@, keyword)]

AddKeyword(chunk_data, keyword) ==
    IF Contains(chunk_data.matching_keywords, keyword)
    THEN chunk_data
    ELSE [chunk_data EXCEPT !.matching_keywords = Append(@, keyword)]

\* a chunk already seen is never overwritten
ProcessHit_KeepFirst(all_results, doc, metadata, distance, keyword) ==
    LET p == Position(all_results, ChunkId(metadata)) IN
    IF p = 0
    THEN Append(all_results, NewChunkData(doc, metadata, distance, keyword))
    ELSE [all_results EXCEPT ![p] = AddKeyword(@, keyword)]

\* <= in place of <: an equal score overwrites too
ProcessHit_OverwriteOnTie(all_results, doc, metadata, distance, keyword) ==
    LET p == Position(all_results, ChunkId(metadata)) IN
    IF p = 0
    THEN Append(all_results, NewChunkData(doc, metadata, distance, keyword))
    ELSE IF all_results[p].relevance_score <= RelevanceScore(distance)
    THEN [all_results EXCEPT ![p] = NewChunkData(doc, metadata, distance, keyword)]
    ELSE [all_results EXCEPT ![p] = AddKeyword(@, keyword)]

\* every hit of a chunk already seen replaces its entry
ProcessHit_LastWins(all_results, doc, metadata, distance, keyword) ==
    LET p == Position(all_results, ChunkId(metadata)) IN
    IF p = 0
    THEN Append(all_results, NewChunkData(doc, metadata, distance, keyword))
    ELSE [all_results EXCEPT ![p] = NewChunkData(doc, metadata, distance, keyword)]

ProcessHit(all_results, doc, metadata, distance, keyword) ==
    LET p == Position(all_results, ChunkId(metadata)) IN
    IF p = 0
    THEN Append(all_results, NewChunkData(doc, metadata, distance, keyword))
    ELSE IF all_results[p].relevance_score < RelevanceScore(distance)
    THEN [all_results EXCEPT ![p] = NewChunkData(doc, metadata, distance, keyword)]
    ELSE [all_results EXCEPT ![p] = AddKeyword(@, keyword)]

RECURSIVE ProcessFrom(_, _, _, _)
ProcessFrom(all_results, results, keyword, i) ==
    IF i > Len(results.documents) \/ i > Len(results.metadatas)
       \/ i > Len(results.distances)
    THEN all_results
    ELSE ProcessFrom(ProcessHit(all_results, results.documents[i], results.metadatas[i],
                                results.distances[i], keyword),
                     results, keyword, i + 1)

ProcessResults(all_results, results, keyword) ==
    IF results.documents # <<>>
    THEN ProcessFrom(all_results, results, keyword, 1)
    ELSE all_results

\* a sort that puts the later of two equal scores first
RECURSIVE InsertSorted_TiesFirst(_, _)
InsertSorted_TiesFirst(sorted, x) ==
    IF sorted = <<>> THEN <<x>>
    ELSE IF Head(sorted).relevance_score > x.relevance_score
    THEN <<Head(sorted)>> \o InsertSorted_TiesFirst(Tail(sorted), x)
    ELSE <<x>> \o sorted

\* list.sort(key=relevance_score, reverse=True): stable, best score first.
RECURSIVE InsertSorted(_, _)
InsertSorted(sorted, x) ==
    IF sorted = <<>> THEN <<x>>
    ELSE IF Head(sorted).relevance_score >= x.relevance_score
    THEN <<Head(sorted)>> \o InsertSorted(Tail(sorted), x)
    ELSE <<x>> \o sorted

RECURSIVE SortByRelevance(_)
SortByRelevance(chunks) ==
    IF chunks = <<>> THEN <<>>
    ELSE InsertSorted(SortByRelevance(SubSeq(chunks, 1, Len(chunks) - 1)),
                      chunks[Len(chunks)])

\* lines 79-116: the keyword loop from keyword i on, over the answers `index`
\* of the vector store
RECURSIVE AggregateFrom(_, _, _, _)
AggregateFrom(all_results, keyword_list, index, i) ==
    IF i > Len(keyword_list) THEN all_results
    ELSE AggregateFrom(ProcessResults(all_results, index[keyword_list[i]],
                                      keyword_list[i]),
                       keyword_list, index, i + 1)

\* lines 75-124: what aggregate_search_results returns for a keyword list
aggregate_search_results(keyword_list, index) ==
    SortByRelevance(AggregateFrom(<<>>, keyword_list, index, 1))

(***************************************************************************)
(* State of one run of main() of generate_newsletter.py.                   *)
(***************************************************************************)
VARIABLES
    pc,                 \* position in main / aggregate_search_results
    project_id_set,     \* GCP_PROJECT_ID is in the environment
    collection_exists,  \* chroma_db holds 'youtube_transcripts'
    store,              \* the answers of the (unchanged) index, per keyword
    keywords,           \* main: the keyword list read from the prompt
    html_output,        \* main: output_choice in ['1', '3', '']
    whatsapp_output,    \* main: output_choice in ['2', '3']
    call_no,            \* which call of aggregate_search_results is running
    kw_i,               \* loop position of `for keyword in keywords`
    all_results,        \* the accumulator, values in insertion order
    unique_chunks,      \* the list the call returned
    first_output,       \* what the first call returned (kept for a second call)
    embed_calls,        \* model.get_embeddings calls of the running call
    query_calls,        \* collection.query calls of the running call
    gen_calls,          \* generate_article_with_gemini calls
    files,              \* output files written
    raised,             \* the exception in flight or caught, "none" if none
    outcome             \* how main ended

aggVars == <<pc, project_id_set, collection_exists, store, keywords, html_output,
             whatsapp_output, call_no, kw_i, all_results, unique_chunks,
             first_output, embed_calls, query_calls, gen_calls, files, raised,
             outcome>>

(***************************************************************************)
(* State of one call of chunk_transcript_by_time (fetch_youtube_data.py).  *)
(***************************************************************************)
VARIABLES
    cpc,                 \* position in chunk_transcript_by_time
    transcript_data,     \* the snippets passed in
    chunk_duration,      \* the window width passed in
    current_chunk_start, \* start of the window under examination
    max_end_time,        \* max(start_time + duration)
    windows_examined,    \* iterations of the while loop so far
    chunks               \* the list being built, then returned

chunkVars == <<cpc, transcript_data, chunk_duration, current_chunk_start,
               max_end_time, windows_examined, chunks>>

(***************************************************************************)
(* State of the two citation passes over one article: re.sub with          *)
(* replace_citation (replace_citations_with_video_clips) and then with     *)
(* replace_citation_with_link (format_article_for_whatsapp), the order in  *)
(* which main calls them.                                                  *)
(***************************************************************************)
VARIABLES
    xpc,                 \* which pass is scanning
    article,             \* the article text, as plain pieces and [digits] tokens
    cited_chunks,        \* the `chunks` argument of both functions
    scan_pos,            \* next piece of the article re.sub looks at
    embedded_citations,  \* replace_citations_with_video_clips: ordinals embedded
    article_with_videos, \* replace_citations_with_video_clips: text built so far
    replaced_citations,  \* format_article_for_whatsapp: ordinals replaced
    formatted_text       \* format_article_for_whatsapp: text built so far

citeVars == <<xpc, article, cited_chunks, scan_pos, embedded_citations,
              article_with_videos, replaced_citations, formatted_text>>

(***************************************************************************)
(* State of one call of split_message_intelligently.                       *)
(***************************************************************************)
VARIABLES
    spc,                 \* position in split_message_intelligently
    message,             \* the text passed in
    max_length,          \* the segment limit passed in
    sections,            \* first pass: the divider-delimited sections
    section_chunks,      \* second pass: `chunks`, the grouped sections
    final_chunks         \* third pass: the list returned

splitVars == <<spc, message, max_length, sections, section_chunks, final_chunks>>

(***************************************************************************)
(* State of one call of generate_article_with_gemini.                      *)
(***************************************************************************)
VARIABLES
    gpc,                 \* position in generate_article_with_gemini
    attempt,             \* the loop variable of `for attempt in range(max_retries)`
    error_msg,           \* str(e) of the exception being handled
    responses,           \* what each generate_content call so far gave
    sleeps,              \* the arguments of the time.sleep calls so far
    returned_text,       \* the value returned
    gen_raised           \* the exception that left the function

genVars == <<gpc, attempt, error_msg, responses, sleeps, returned_text, gen_raised>>

(***************************************************************************)
(* State of main of fetch_youtube_data.py, the ingestion loop.             *)
(***************************************************************************)
VARIABLES
    ipc,                 \* position in main
    to_process,          \* the videos the two loops visit, in order
    video_i,             \* the video being processed
    all_data,            \* the video records so far
    all_chunked_data,    \* the chunk records so far
    data_file,           \* contents of video_transcripts.json
    chunk_file,          \* contents of video_chunked_transcripts.jsonl
    chunker_calls        \* calls of chunk_transcript_by_time so far

ingestVars == <<ipc, to_process, video_i, all_data, all_chunked_data, data_file,
                chunk_file, chunker_calls>>

(***************************************************************************)
(* The prompt that main builds from the ranked list before the article is  *)
(* generated (build_article_prompt).                                       *)
(***************************************************************************)
VARIABLES
    prompt               \* source_material: the numbered source entries

promptVars == <<prompt>>

vars == <<aggVars, chunkVars, citeVars, splitVars, genVars, ingestVars, promptVars>>

\* what the actions of generate_newsletter.py leave alone
outsideAgg == <<chunkVars, citeVars, splitVars, genVars, ingestVars, promptVars>>

\* what the actions of chunk_transcript_by_time leave alone
outsideChunk == <<aggVars, citeVars, splitVars, genVars, ingestVars, promptVars>>

\* what the citation passes leave alone
outsideCite == <<aggVars, chunkVars, splitVars, genVars, ingestVars, promptVars>>

\* what the actions of split_message_intelligently leave alone
outsideSplit == <<aggVars, chunkVars, citeVars, genVars, ingestVars, promptVars>>

\* what the actions of generate_article_with_gemini leave alone
outsideGen == <<aggVars, chunkVars, citeVars, splitVars, ingestVars, promptVars>>

\* what the actions of the ingestion loop leave alone
outsideIngest == <<aggVars, chunkVars, citeVars, splitVars, genVars, promptVars>>

\* main of generate_newsletter.py not started.
MainIdle ==
    /\ pc = "idle"
    /\ project_id_set = FALSE
    /\ collection_exists = FALSE
    /\ store = [k \in Keywords |-> NotQueried]
    /\ keywords = <<>>
    /\ html_output = FALSE
    /\ whatsapp_output = FALSE
    /\ call_no = 0
    /\ kw_i = 0
    /\ all_results = <<>>
    /\ unique_chunks = <<>>
    /\ first_output = <<>>
    /\ embed_calls = 0
    /\ query_calls = 0
    /\ gen_calls = 0
    /\ files = {}
    /\ raised = "none"
    /\ outcome = "running"

\* No citation pass running.
CiterIdle ==
    /\ xpc = "idle"
    /\ article = <<>>
    /\ cited_chunks = <<>>
    /\ scan_pos = 0
    /\ embedded_citations = {}
    /\ article_with_videos = <<>>
    /\ replaced_citations = {}
    /\ formatted_text = <<>>

\* No call of split_message_intelligently running.
SplitterIdle ==
    /\ spc = "idle"
    /\ message = <<>>
    /\ max_length = 1
    /\ sections = <<>>
    /\ section_chunks = <<>>
    /\ final_chunks = <<>>

\* No prompt built.
PromptIdle == prompt = <<>>

\* No call of generate_article_with_gemini running.
GeneratorIdle ==
    /\ gpc = "idle"
    /\ attempt = 0
    /\ error_msg = {}
    /\ responses = <<>>
    /\ sleeps = <<>>
    /\ returned_text = "none"
    /\ gen_raised = "none"

\* The ingestion job not started.
IngestIdle ==
    /\ ipc = "idle"
    /\ to_process = <<>>
    /\ video_i = 0
    /\ all_data = <<>>
    /\ all_chunked_data = <<>>
    /\ data_file = <<>>
    /\ chunk_file = <<>>
    /\ chunker_calls = 0

\* The chunker at rest while main of generate_newsletter.py runs.
ChunkerIdle ==
    /\ cpc = "idle"
    /\ transcript_data = <<>>
    /\ chunk_duration = 1
    /\ current_chunk_start = 0
    /\ max_end_time = 0
    /\ windows_examined = 0
    /\ chunks = <<>>

Init ==
    /\ pc = "input"
    /\ project_id_set \in BOOLEAN
    /\ collection_exists \in BOOLEAN
    /\ store = [k \in Keywords |-> NotQueried]
    /\ keywords = <<>>
    /\ html_output = FALSE
    /\ whatsapp_output = FALSE
    /\ call_no = 0
    /\ kw_i = 0
    /\ all_results = <<>>
    /\ unique_chunks = <<>>
    /\ first_output = <<>>
    /\ embed_calls = 0
    /\ query_calls = 0
    /\ gen_calls = 0
    /\ files = {}
    /\ raised = "none"
    /\ outcome = "running"
    /\ ChunkerIdle
    /\ CiterIdle
    /\ SplitterIdle
    /\ GeneratorIdle
    /\ IngestIdle
    /\ PromptIdle

(***************************************************************************)
(* main, lines 1036-1080: the prompts.  An empty keyword list and a        *)
(* missing WhatsApp number end the run before any search.                  *)
(***************************************************************************)
MainReadInputs ==
    /\ pc = "input"
    /\ \E kws \in KeywordLists, choice \in {"1", "2", "3"}, number_given \in BOOLEAN :
          /\ keywords' = kws
          /\ html_output' = (kws # <<>> /\ choice \in {"1", "3"})
          /\ whatsapp_output' = (kws # <<>> /\ choice \in {"2", "3"})
          /\ IF kws = <<>>
             THEN pc' = "done" /\ outcome' = "no_keywords" /\ call_no' = call_no
             ELSE IF choice \in {"2", "3"} /\ ~number_given
             THEN pc' = "done" /\ outcome' = "no_number" /\ call_no' = call_no
             ELSE pc' = "agg_start" /\ outcome' = outcome /\ call_no' = 1
    /\ UNCHANGED outsideAgg
    /\ UNCHANGED <<project_id_set, collection_exists, store, kw_i, all_results,
                   unique_chunks, first_output, embed_calls, query_calls, gen_calls,
                   files, raised>>

(***************************************************************************)
(* aggregate_search_results, lines 57-77: initialize_vertex_ai, the        *)
(* collection lookup, the empty accumulator.                               *)
(***************************************************************************)
\* the accumulator of the previous call kept
EmptyAccumulator_Stale(previous) == previous

\* line 75
EmptyAccumulator(previous) == <<>>

\* a failed collection lookup swallowed: the call goes on
AggStart_NoCollectionCheck ==
    /\ pc = "agg_start"
    /\ embed_calls' = 0
    /\ query_calls' = 0
    /\ IF ~project_id_set
       THEN /\ raised' = "ValueError"
            /\ pc' = "except"
            /\ UNCHANGED <<kw_i, all_results>>
       ELSE /\ all_results' = EmptyAccumulator(all_results)
            /\ kw_i' = 1
            /\ pc' = "loop"
            /\ raised' = raised
    /\ UNCHANGED outsideAgg
    /\ UNCHANGED <<project_id_set, collection_exists, store, keywords, html_output,
                   whatsapp_output, call_no, unique_chunks, first_output, gen_calls,
                   files, outcome>>

AggStart ==
    /\ pc = "agg_start"
    /\ embed_calls' = 0
    /\ query_calls' = 0
    /\ IF ~project_id_set
       THEN /\ raised' = "ValueError"
            /\ pc' = "except"
            /\ UNCHANGED <<kw_i, all_results>>
       ELSE IF ~collection_exists
       THEN /\ raised' = "RuntimeError"
            /\ pc' = "except"
            /\ UNCHANGED <<kw_i, all_results>>
       ELSE /\ all_results' = EmptyAccumulator(all_results)
            /\ kw_i' = 1
            /\ pc' = "loop"
            /\ raised' = raised
    /\ UNCHANGED outsideAgg
    /\ UNCHANGED <<project_id_set, collection_exists, store, keywords, html_output,
                   whatsapp_output, call_no, unique_chunks, first_output, gen_calls,
                   files, outcome>>

\* the embedding of a keyword seen earlier in the list is reused
EmbedKeyword_Cached ==
    /\ pc = "loop"
    /\ kw_i <= Len(keywords)
    /\ embed_calls' = IF \E j \in 1..(kw_i - 1) : keywords[j] = keywords[kw_i]
                      THEN embed_calls
                      ELSE embed_calls + 1
    /\ pc' = "query"
    /\ UNCHANGED outsideAgg
    /\ UNCHANGED <<project_id_set, collection_exists, store, keywords, html_output,
                   whatsapp_output, call_no, kw_i, all_results, unique_chunks,
                   first_output, query_calls, gen_calls, files, raised, outcome>>

\* line 83: the embedding of the next keyword
EmbedKeyword ==
    /\ pc = "loop"
    /\ kw_i <= Len(keywords)
    /\ embed_calls' = embed_calls + 1
    /\ pc' = "query"
    /\ UNCHANGED outsideAgg
    /\ UNCHANGED <<project_id_set, collection_exists, store, keywords, html_output,
                   whatsapp_output, call_no, kw_i, all_results, unique_chunks,
                   first_output, query_calls, gen_calls, files, raised, outcome>>

\* lines 86-116: the query for the keyword and the merge of its hits.  The
\* index is unchanged during the run: a keyword asked again gets the same answer.
QueryAndProcess ==
    /\ pc = "query"
    /\ LET keyword == keywords[kw_i] IN
       \E results \in (IF store[keyword] = NotQueried THEN QueryResults
                       ELSE {store[keyword]}) :
          /\ store' = [store EXCEPT ![keyword] = results]
          /\ all_results' = ProcessResults(all_results, results, keyword)
    /\ query_calls' = query_calls + 1
    /\ kw_i' = kw_i + 1
    /\ pc' = "loop"
    /\ UNCHANGED outsideAgg
    /\ UNCHANGED <<project_id_set, collection_exists, keywords, html_output,
                   whatsapp_output, call_no, unique_chunks, first_output, embed_calls,
                   gen_calls, files, raised, outcome>>

\* lines 118-124: the sorted list is returned
AggReturn ==
    /\ pc = "loop"
    /\ kw_i > Len(keywords)
    /\ unique_chunks' = SortByRelevance(all_results)
    /\ pc' = "returned"
    /\ UNCHANGED outsideAgg
    /\ UNCHANGED <<project_id_set, collection_exists, store, keywords, html_output,
                   whatsapp_output, call_no, kw_i, all_results, first_output,
                   embed_calls, query_calls, gen_calls, files, raised, outcome>>

\* main, lines 1089-1091
MainNoResults ==
    /\ pc = "returned"
    /\ unique_chunks = <<>>
    /\ outcome' = "no_results"
    /\ pc' = "done"
    /\ UNCHANGED outsideAgg
    /\ UNCHANGED <<project_id_set, collection_exists, store, keywords, html_output,
                   whatsapp_output, call_no, kw_i, all_results, unique_chunks,
                   first_output, embed_calls, query_calls, gen_calls, files, raised>>

\* main without the `if not chunks` return
MainGenerate_NoEmptyCheck ==
    /\ pc = "returned"
    /\ \E result \in {"no_api_key", "generation_failed", "article"} :
          /\ gen_calls' = IF result = "no_api_key" THEN gen_calls ELSE gen_calls + 1
          /\ raised' = CASE result = "no_api_key" -> "ValueError"
                         [] result = "generation_failed" -> "RuntimeError"
                         [] OTHER -> raised
          /\ pc' = IF result = "article" THEN "outputs" ELSE "except"
    /\ UNCHANGED outsideAgg
    /\ UNCHANGED <<project_id_set, collection_exists, store, keywords, html_output,
                   whatsapp_output, call_no, kw_i, all_results, unique_chunks,
                   first_output, embed_calls, query_calls, files, outcome>>

\* main, lines 1093-1099: setup_gemini_client and generate_article_with_gemini,
\* either of which may raise.
MainGenerate ==
    /\ pc = "returned"
    /\ unique_chunks # <<>>
    /\ \E result \in {"no_api_key", "generation_failed", "article"} :
          /\ gen_calls' = IF result = "no_api_key" THEN gen_calls ELSE gen_calls + 1
          /\ raised' = CASE result = "no_api_key" -> "ValueError"
                         [] result = "generation_failed" -> "RuntimeError"
                         [] OTHER -> raised
          /\ pc' = IF result = "article" THEN "outputs" ELSE "except"
    /\ UNCHANGED outsideAgg
    /\ UNCHANGED <<project_id_set, collection_exists, store, keywords, html_output,
                   whatsapp_output, call_no, kw_i, all_results, unique_chunks,
                   first_output, embed_calls, query_calls, files, outcome>>

\* main, lines 1101-1162: the HTML file and the WhatsApp preview file
MainOutputs ==
    /\ pc = "outputs"
    /\ files' = files \cup (IF html_output THEN {"newsletter.html"} ELSE {})
                      \cup (IF whatsapp_output THEN {"newsletter_whatsapp.txt"} ELSE {})
    /\ outcome' = "success"
    /\ pc' = "done"
    /\ UNCHANGED outsideAgg
    /\ UNCHANGED <<project_id_set, collection_exists, store, keywords, html_output,
                   whatsapp_output, call_no, kw_i, all_results, unique_chunks,
                   first_output, embed_calls, query_calls, gen_calls, raised>>

\* main, lines 1164-1173: the handler that reports the error
MainExcept ==
    /\ pc = "except"
    /\ outcome' = "error"
    /\ pc' = "done"
    /\ UNCHANGED outsideAgg
    /\ UNCHANGED <<project_id_set, collection_exists, store, keywords, html_output,
                   whatsapp_output, call_no, kw_i, all_results, unique_chunks,
                   first_output, embed_calls, query_calls, gen_calls, files, raised>>

Next ==
    \/ MainReadInputs
    \/ AggStart
    \/ EmbedKeyword
    \/ QueryAndProcess
    \/ AggReturn
    \/ MainNoResults
    \/ MainGenerate
    \/ MainOutputs
    \/ MainExcept

Spec == Init /\ [][Next]_vars

(***************************************************************************)
(* aggregate_search_results called twice with the same keywords against    *)
(* the same index (specification SpecRerun).                               *)
(***************************************************************************)
InitRerun ==
    /\ pc = "agg_start"
    /\ project_id_set \in BOOLEAN
    /\ collection_exists \in BOOLEAN
    /\ store = [k \in Keywords |-> NotQueried]
    /\ keywords \in KeywordLists
    /\ html_output = FALSE
    /\ whatsapp_output = FALSE
    /\ call_no = 1
    /\ kw_i = 0
    /\ all_results = <<>>
    /\ unique_chunks = <<>>
    /\ first_output = <<>>
    /\ embed_calls = 0
    /\ query_calls = 0
    /\ gen_calls = 0
    /\ files = {}
    /\ raised = "none"
    /\ outcome = "running"
    /\ ChunkerIdle
    /\ CiterIdle
    /\ SplitterIdle
    /\ GeneratorIdle
    /\ IngestIdle
    /\ PromptIdle

\* the first call has returned: the second call starts
Rerun ==
    /\ pc = "returned"
    /\ call_no = 1
    /\ first_output' = unique_chunks
    /\ call_no' = 2
    /\ pc' = "agg_start"
    /\ UNCHANGED outsideAgg
    /\ UNCHANGED <<project_id_set, collection_exists, store, keywords, html_output,
                   whatsapp_output, kw_i, all_results, unique_chunks, embed_calls,
                   query_calls, gen_calls, files, raised, outcome>>

NextRerun ==
    \/ AggStart
    \/ EmbedKeyword
    \/ QueryAndProcess
    \/ AggReturn
    \/ Rerun

SpecRerun == InitRerun /\ [][NextRerun]_vars

(***************************************************************************)
(* Properties of aggregate_search_results and main, checked under Spec     *)
(* (C8 under SpecRerun).                                                   *)
(* A hit is named <<j, i>>: the i-th entry of the answer to keywords[j].   *)
(* The keywords merged so far are keywords[1..kw_i - 1].                   *)
(***************************************************************************)
Returned == pc = "returned"

MergedKeywords == IF kw_i = 0 THEN 0 ELSE kw_i - 1

HitIdx ==
    { h \in (1..MergedKeywords) \X (1..MaxHits) :
        h[2] <= Len(store[keywords[h[1]]].distances) }

HitKeyword(h) == keywords[h[1]]

HitDocument(h) == store[HitKeyword(h)].documents[h[2]]

HitMetadata(h) == store[HitKeyword(h)].metadatas[h[2]]

HitIdentity(h) == <<HitMetadata(h).video_id, HitMetadata(h).chunk_start_time>>

HitSimilarity(h) == 1 - store[HitKeyword(h)].distances[h[2]]

HitsFor(id) == { h \in HitIdx : HitIdentity(h) = id }

Earlier(g, h) == g[1] < h[1] \/ (g[1] = h[1] /\ g[2] < h[2])

FirstHit(id) == CHOOSE h \in HitsFor(id) : \A g \in HitsFor(id) : ~Earlier(g, h)

\* C1: after all keywords are processed, each result's matching_keywords holds
\* every keyword whose query returned that chunk_id, whatever the order in which
\* the scores arrived.
C1_KeywordsAccumulate ==
    Returned =>
        \A n \in 1..Len(unique_chunks) :
            \A h \in HitsFor(unique_chunks[n].chunk_id) :
                Contains(unique_chunks[n].matching_keywords, HitKeyword(h))

\* C2: the relevance_score of every returned chunk is the maximum of
\* 1 - distance over all hits of the call for that chunk_id.
C2_ScoreIsMaximum ==
    Returned =>
        \A n \in 1..Len(unique_chunks) :
            LET c == unique_chunks[n] IN
            /\ \E h \in HitsFor(c.chunk_id) : HitSimilarity(h) = c.relevance_score
            /\ \A h \in HitsFor(c.chunk_id) : HitSimilarity(h) <= c.relevance_score

C2_Witness ==
    /\ Returned
    /\ \E n \in 1..Len(unique_chunks) :
          \E g, h \in HitsFor(unique_chunks[n].chunk_id) :
              /\ Earlier(g, h)
              /\ HitSimilarity(g) < HitSimilarity(h)
              /\ unique_chunks[n].relevance_score = HitSimilarity(h)

\* C3: text, metadata and score of a stored chunk are those of the earliest hit
\* that attained the chunk's maximum score: a later hit replaces them only
\* with a strictly greater score.  Holds of the accumulator after every merged
\* keyword and of the returned list.
StoredFromEarliestBest(c) ==
    LET hits == HitsFor(c.chunk_id) IN
    \E h \in hits :
        /\ \A g \in hits :
              /\ HitSimilarity(g) <= HitSimilarity(h)
              /\ HitSimilarity(g) = HitSimilarity(h) => ~Earlier(g, h)
        /\ c.text = HitDocument(h)
        /\ c.metadata = HitMetadata(h)
        /\ c.relevance_score = HitSimilarity(h)

C3_EarliestBestHitStored ==
    /\ pc = "loop" =>
          \A n \in 1..Len(all_results) : StoredFromEarliestBest(all_results[n])
    /\ Returned =>
          \A n \in 1..Len(unique_chunks) : StoredFromEarliestBest(unique_chunks[n])

C3_Witness ==
    /\ Returned
    /\ \E n \in 1..Len(unique_chunks) :
          \E g, h \in HitsFor(unique_chunks[n].chunk_id) :
              /\ Earlier(g, h)
              /\ HitSimilarity(g) = HitSimilarity(h)
              /\ HitSimilarity(g) = unique_chunks[n].relevance_score
              /\ HitDocument(g) # HitDocument(h)
              /\ unique_chunks[n].text = HitDocument(g)

\* C4: the returned list is sorted by relevance_score, best first, and results
\* of equal score keep the order in which their chunk_ids were first seen; an
\* overwrite by a better later hit does not move a chunk.
C4_SortedStable ==
    Returned =>
        \A m, n \in 1..Len(unique_chunks) :
            m < n =>
                /\ unique_chunks[m].relevance_score >= unique_chunks[n].relevance_score
                /\ unique_chunks[m].relevance_score = unique_chunks[n].relevance_score
                   => Earlier(FirstHit(unique_chunks[m].chunk_id),
                              FirstHit(unique_chunks[n].chunk_id))

C4_Witness ==
    /\ Returned
    /\ \E m, n \in 1..Len(unique_chunks) :
          /\ m < n
          /\ unique_chunks[m].relevance_score = unique_chunks[n].relevance_score
          /\ HitSimilarity(FirstHit(unique_chunks[m].chunk_id))
                < unique_chunks[m].relevance_score
          /\ \E h \in HitsFor(unique_chunks[n].chunk_id) :
                /\ HitSimilarity(h) = unique_chunks[n].relevance_score
                /\ \E g \in HitsFor(unique_chunks[m].chunk_id) :
                      /\ HitSimilarity(g) = unique_chunks[m].relevance_score
                      /\ Earlier(h, g)

\* C5 as stated: every returned relevance_score lies in [0, 1].
C5_ScoreInUnitInterval ==
    Returned =>
        \A n \in 1..Len(unique_chunks) :
            /\ 0 <= unique_chunks[n].relevance_score
            /\ unique_chunks[n].relevance_score <= 1

\* C5 amended: every returned relevance_score is at most 1, and it is below 0
\* exactly when every hit of the chunk has a distance above 1.
C5_ScoreAtMostOne ==
    Returned =>
        \A n \in 1..Len(unique_chunks) :
            LET c == unique_chunks[n] IN
            /\ c.relevance_score <= 1
            /\ c.relevance_score < 0
               <=> \A h \in HitsFor(c.chunk_id) :
                       store[HitKeyword(h)].distances[h[2]] > 1

C5_Witness ==
    /\ Returned
    /\ \E n \in 1..Len(unique_chunks) : unique_chunks[n].relevance_score < 0

\* C6: a keyword whose query returns no hits contributes nothing and raises no
\* error; when every keyword returns no hits the call returns the empty list
\* and main ends with "no results": no generation call, no file, no error.
NoHits == \A j \in 1..Len(keywords) : store[keywords[j]].documents = <<>>

C6_NoHitsNoResults ==
    /\ \A n \in 1..Len(all_results) :
          \A k \in 1..Len(all_results[n].matching_keywords) :
              store[all_results[n].matching_keywords[k]].documents # <<>>
    /\ pc \in {"loop", "query", "returned"} => raised = "none"
    /\ (kw_i = Len(keywords) + 1 /\ pc # "loop" /\ NoHits) =>
          /\ unique_chunks = <<>>
          /\ pc \in {"returned", "done"}
          /\ pc = "done" => outcome = "no_results"
          /\ gen_calls = 0
          /\ files = {}
          /\ raised = "none"

C6_Witness ==
    /\ pc = "done"
    /\ outcome = "no_results"
    /\ Len(keywords) = 2
    /\ keywords[1] # keywords[2]
    /\ query_calls = 2

\* C7: without the 'youtube_transcripts' collection the call raises before any
\* keyword is embedded and before any query; it never returns a list, so the
\* outcome differs from the empty-result outcome.
C7_MissingCollectionRaises ==
    ~collection_exists =>
        /\ embed_calls = 0
        /\ query_calls = 0
        /\ pc \in {"input", "agg_start", "except", "done"}
        /\ (pc \in {"except", "done"} /\ call_no = 1) =>
              /\ raised \in {"ValueError", "RuntimeError"}
              /\ project_id_set => raised = "RuntimeError"
              /\ outcome # "no_results"

C7_Witness ==
    /\ ~collection_exists
    /\ project_id_set
    /\ pc = "done"
    /\ raised = "RuntimeError"
    /\ outcome = "error"

\* C8: a second call with the same keywords against the unchanged index
\* returns the same list as the first: same chunk_ids in the same order with
\* the same scores, text, metadata and matching_keywords.
C8_SecondCallSameOutput ==
    (call_no = 2 /\ Returned) => unique_chunks = first_output

C8_Witness ==
    /\ call_no = 2
    /\ Returned
    /\ Len(unique_chunks) = 2
    /\ \E n \in 1..Len(unique_chunks) : Len(unique_chunks[n].matching_keywords) = 2

(***************************************************************************)
(* chunk_transcript_by_time (fetch_youtube_data.py, lines 230-286).        *)
(***************************************************************************)
\* the caption of the i-th snippet of a transcript
Texts == <<"a", "b", "c", "d", "e", "f">>

Snippets ==
    [text : { Texts[i] : i \in 1..MaxSnippets },
     start_time : 0..MaxStart, duration : 0..MaxDuration]

Transcripts ==
    UNION { { data \in [1..n -> Snippets] : \A i \in 1..n : data[i].text = Texts[i] }
            : n \in 0..MaxSnippets }

SnippetEnd(snippet) == snippet.start_time + snippet.duration

\* lines 252-255
MaxEndTime(data) ==
    CHOOSE m \in { SnippetEnd(data[i]) : i \in 1..Len(data) } :
        \A i \in 1..Len(data) : SnippetEnd(data[i]) <= m

\* <= in place of the first <
Overlaps_EndInclusive(snippet, chunk_start, chunk_end) ==
    snippet.start_time <= chunk_end /\ SnippetEnd(snippet) > chunk_start

\* >= in place of >
Overlaps_StartInclusive(snippet, chunk_start, chunk_end) ==
    snippet.start_time < chunk_end /\ SnippetEnd(snippet) >= chunk_start

\* a snippet put only in the window in which it starts
Overlaps_StartsInside(snippet, chunk_start, chunk_end) ==
    chunk_start <= snippet.start_time /\ snippet.start_time < chunk_end

\* line 269: the snippet starts before the window ends and ends after it starts
Overlaps(snippet, chunk_start, chunk_end) ==
    snippet.start_time < chunk_end /\ SnippetEnd(snippet) > chunk_start

\* lines 262-270: the snippets of the window, in input order
RECURSIVE SnippetsInChunk(_, _, _)
SnippetsInChunk(data, chunk_start, chunk_end) ==
    IF data = <<>> THEN <<>>
    ELSE (IF Overlaps(Head(data), chunk_start, chunk_end) THEN <<Head(data)>> ELSE <<>>)
         \o SnippetsInChunk(Tail(data), chunk_start, chunk_end)

\* ''.join: the texts run together, no separator
RECURSIVE JoinTexts_NoSeparator(_)
JoinTexts_NoSeparator(snippets) ==
    IF snippets = <<>> THEN ""
    ELSE snippets[1].text \o JoinTexts_NoSeparator(Tail(snippets))

\* line 274: ' '.join of the snippets' texts
RECURSIVE JoinTexts(_)
JoinTexts(snippets) ==
    IF snippets = <<>> THEN ""
    ELSE IF Len(snippets) = 1 THEN snippets[1].text
    ELSE snippets[1].text \o " " \o JoinTexts(Tail(snippets))

\* < in place of <=
LoopCondition_Strict(chunk_start, end_time) == chunk_start < end_time

\* line 258: the condition of the while loop
LoopCondition(chunk_start, end_time) == chunk_start <= end_time

InitChunk ==
    /\ pc = "idle"
    /\ project_id_set = FALSE
    /\ collection_exists = FALSE
    /\ store = [k \in Keywords |-> NotQueried]
    /\ keywords = <<>>
    /\ html_output = FALSE
    /\ whatsapp_output = FALSE
    /\ call_no = 0
    /\ kw_i = 0
    /\ all_results = <<>>
    /\ unique_chunks = <<>>
    /\ first_output = <<>>
    /\ embed_calls = 0
    /\ query_calls = 0
    /\ gen_calls = 0
    /\ files = {}
    /\ raised = "none"
    /\ outcome = "running"
    /\ cpc = "start"
    /\ transcript_data \in Transcripts
    /\ chunk_duration \in 1..MaxWindow
    /\ current_chunk_start = 0
    /\ max_end_time = 0
    /\ windows_examined = 0
    /\ chunks = <<>>
    /\ CiterIdle
    /\ SplitterIdle
    /\ GeneratorIdle
    /\ IngestIdle
    /\ PromptIdle

\* lines 245-246: no transcript, no chunks
ChunkEmptyInput ==
    /\ cpc = "start"
    /\ transcript_data = <<>>
    /\ cpc' = "done"
    /\ UNCHANGED <<transcript_data, chunk_duration, current_chunk_start,
                   max_end_time, windows_examined, chunks>>
    /\ UNCHANGED outsideChunk

\* lines 248-255
ChunkStart ==
    /\ cpc = "start"
    /\ transcript_data # <<>>
    /\ chunks' = <<>>
    /\ current_chunk_start' = 0
    /\ max_end_time' = MaxEndTime(transcript_data)
    /\ cpc' = "loop"
    /\ UNCHANGED <<transcript_data, chunk_duration, windows_examined>>
    /\ UNCHANGED outsideChunk

\* the end of a chunk clipped to the end of the transcript
ChunkWindow_ClipEnd ==
    /\ cpc = "loop"
    /\ LoopCondition(current_chunk_start, max_end_time)
    /\ LET chunk_end == current_chunk_start + chunk_duration
           snippets_in_chunk ==
               SnippetsInChunk(transcript_data, current_chunk_start, chunk_end)
       IN /\ chunks' = IF snippets_in_chunk # <<>>
                       THEN Append(chunks, [text |-> JoinTexts(snippets_in_chunk),
                                   start_time |-> current_chunk_start,
                                   end_time |-> IF chunk_end > max_end_time THEN max_end_time ELSE chunk_end,
                                   snippets |-> snippets_in_chunk])
                       ELSE chunks
          /\ current_chunk_start' = chunk_end
    /\ windows_examined' = windows_examined + 1
    /\ UNCHANGED <<cpc, transcript_data, chunk_duration, max_end_time>>
    /\ UNCHANGED outsideChunk

\* chunks.insert(0, chunk): the newest chunk first
ChunkWindow_Prepend ==
    /\ cpc = "loop"
    /\ LoopCondition(current_chunk_start, max_end_time)
    /\ LET chunk_end == current_chunk_start + chunk_duration
           snippets_in_chunk ==
               SnippetsInChunk(transcript_data, current_chunk_start, chunk_end)
       IN /\ chunks' = IF snippets_in_chunk # <<>>
                       THEN <<[text |-> JoinTexts(snippets_in_chunk),
                                   start_time |-> current_chunk_start,
                                   end_time |-> chunk_end,
                                   snippets |-> snippets_in_chunk]>> \o chunks
                       ELSE chunks
          /\ current_chunk_start' = chunk_end
    /\ windows_examined' = windows_examined + 1
    /\ UNCHANGED <<cpc, transcript_data, chunk_duration, max_end_time>>
    /\ UNCHANGED outsideChunk

\* a chunk for every window, also one no snippet overlaps
ChunkWindow_GapFiller ==
    /\ cpc = "loop"
    /\ LoopCondition(current_chunk_start, max_end_time)
    /\ LET chunk_end == current_chunk_start + chunk_duration
           snippets_in_chunk ==
               SnippetsInChunk(transcript_data, current_chunk_start, chunk_end)
       IN /\ chunks' = Append(chunks, [text |-> JoinTexts(snippets_in_chunk),
                                   start_time |-> current_chunk_start,
                                   end_time |-> chunk_end,
                                   snippets |-> snippets_in_chunk])
          /\ current_chunk_start' = chunk_end
    /\ windows_examined' = windows_examined + 1
    /\ UNCHANGED <<cpc, transcript_data, chunk_duration, max_end_time>>
    /\ UNCHANGED outsideChunk

\* lines 258-284: one iteration of the while loop
ChunkWindow ==
    /\ cpc = "loop"
    /\ LoopCondition(current_chunk_start, max_end_time)
    /\ LET chunk_end == current_chunk_start + chunk_duration
           snippets_in_chunk ==
               SnippetsInChunk(transcript_data, current_chunk_start, chunk_end)
       IN /\ chunks' = IF snippets_in_chunk # <<>>
                       THEN Append(chunks, [text |-> JoinTexts(snippets_in_chunk),
                                            start_time |-> current_chunk_start,
                                            end_time |-> chunk_end,
                                            snippets |-> snippets_in_chunk])
                       ELSE chunks
          /\ current_chunk_start' = chunk_end
    /\ windows_examined' = windows_examined + 1
    /\ UNCHANGED <<cpc, transcript_data, chunk_duration, max_end_time>>
    /\ UNCHANGED outsideChunk

\* line 286
ChunkReturn ==
    /\ cpc = "loop"
    /\ ~LoopCondition(current_chunk_start, max_end_time)
    /\ cpc' = "done"
    /\ UNCHANGED <<transcript_data, chunk_duration, current_chunk_start,
                   max_end_time, windows_examined, chunks>>
    /\ UNCHANGED outsideChunk

NextChunk ==
    \/ ChunkEmptyInput
    \/ ChunkStart
    \/ ChunkWindow
    \/ ChunkReturn

SpecChunk == InitChunk /\ [][NextChunk]_vars

\* chunk_transcript_by_time is sequential code: its next step is always taken
SpecChunkFair == SpecChunk /\ WF_vars(NextChunk)

(***************************************************************************)
(* Properties of chunk_transcript_by_time, checked under SpecChunk.        *)
(* Window i spans [i * chunk_duration, (i + 1) * chunk_duration).          *)
(***************************************************************************)
Count(seq, x) == Cardinality({ i \in 1..Len(seq) : seq[i] = x })

Elements(seq) == { seq[i] : i \in 1..Len(seq) }

WindowIndexes == 0..(MaxStart + MaxDuration)

ChunksAt(window_start) ==
    { n \in 1..Len(chunks) : chunks[n].start_time = window_start }

\* C9: the snippets of a chunk are exactly the input snippets with
\* snippet.start < window.end and snippet.end > window.start, so that a
\* snippet straddling window boundaries is in the chunk of every window it
\* overlaps and in no other.
C9_SnippetsAreTheOverlapping ==
    /\ \A n \in 1..Len(chunks) :
          \A x \in Elements(transcript_data) \cup Elements(chunks[n].snippets) :
              Count(chunks[n].snippets, x) =
                  IF /\ x.start_time < chunks[n].end_time
                     /\ x.start_time + x.duration > chunks[n].start_time
                  THEN Count(transcript_data, x)
                  ELSE 0
    /\ cpc = "done" =>
          \A k \in 1..Len(transcript_data) :
              \A i \in WindowIndexes :
                  LET x == transcript_data[k]
                      window_start == i * chunk_duration
                      window_end == (i + 1) * chunk_duration
                  IN (x.start_time < window_end
                        /\ x.start_time + x.duration > window_start)
                     => \E n \in ChunksAt(window_start) :
                            /\ chunks[n].end_time = window_end
                            /\ Count(chunks[n].snippets, x) > 0

C9_Witness ==
    /\ cpc = "done"
    /\ \E k \in 1..Len(transcript_data) :
          LET x == transcript_data[k] IN
          \E m, n, o \in 1..Len(chunks) :
              /\ chunks[n].start_time = chunks[m].end_time
              /\ chunks[m].start_time < x.start_time
              /\ x.start_time < chunks[m].end_time
              /\ chunks[n].start_time < x.start_time + x.duration
              /\ Count(chunks[m].snippets, x) > 0
              /\ Count(chunks[n].snippets, x) > 0
              /\ Count(chunks[o].snippets, x) = 0

\* C10 as stated: a zero-duration snippet with start_time s is in the chunk of
\* the window with window.start <= s < window.end, and in no other.
C10_ZeroDurationFromWindowStart ==
    cpc = "done" =>
        \A k \in 1..Len(transcript_data) :
            LET x == transcript_data[k] IN
            x.duration = 0 =>
                \A i \in WindowIndexes :
                    (\E n \in ChunksAt(i * chunk_duration) :
                        Count(chunks[n].snippets, x) > 0)
                    <=> (i * chunk_duration <= x.start_time
                           /\ x.start_time < (i + 1) * chunk_duration)

\* C10 amended: a zero-duration snippet with start_time s is in the chunk of
\* the window with window.start < s < window.end and in no other; when s is a
\* window start (0 or a multiple of the window width) it is in no chunk.
C10_ZeroDurationStrictlyInside ==
    cpc = "done" =>
        \A k \in 1..Len(transcript_data) :
            LET x == transcript_data[k] IN
            x.duration = 0 =>
                /\ \A i \in WindowIndexes :
                      (\E n \in ChunksAt(i * chunk_duration) :
                          Count(chunks[n].snippets, x) > 0)
                      <=> (i * chunk_duration < x.start_time
                             /\ x.start_time < (i + 1) * chunk_duration)
                /\ x.start_time % chunk_duration = 0 =>
                      \A n \in 1..Len(chunks) : Count(chunks[n].snippets, x) = 0

C10_Witness ==
    /\ cpc = "done"
    /\ \E j, k \in 1..Len(transcript_data) :
          /\ transcript_data[j].duration = 0
          /\ transcript_data[k].duration = 0
          /\ transcript_data[j].start_time % chunk_duration = 0
          /\ \A n \in 1..Len(chunks) : Count(chunks[n].snippets, transcript_data[j]) = 0
          /\ \E n \in 1..Len(chunks) : Count(chunks[n].snippets, transcript_data[k]) > 0

\* C11: every chunk has at least one snippet, ends one window width after it
\* starts, and starts at a non-negative multiple of the window width.
C11_ChunkWellFormed ==
    \A n \in 1..Len(chunks) :
        /\ chunks[n].snippets # <<>>
        /\ chunks[n].end_time = chunks[n].start_time + chunk_duration
        /\ chunks[n].start_time >= 0
        /\ chunks[n].start_time % chunk_duration = 0

C11_Witness ==
    /\ cpc = "done"
    /\ Len(chunks) >= 2
    /\ \E n \in 1..Len(chunks) :
          /\ chunks[n].start_time >= 2 * chunk_duration
          /\ chunks[n].end_time < max_end_time

\* C12: the chunks are in strictly increasing start_time order and an earlier
\* chunk ends no later than a later chunk starts, also when they share a
\* snippet.
C12_WindowsDisjointInOrder ==
    \A m, n \in 1..Len(chunks) :
        m < n => /\ chunks[m].end_time <= chunks[n].start_time
                 /\ chunks[m].start_time < chunks[n].start_time

C12_Witness ==
    /\ cpc = "done"
    /\ \E m, n \in 1..Len(chunks) :
          /\ n = m + 1
          /\ chunks[m].end_time = chunks[n].start_time
          /\ \E x \in Elements(chunks[m].snippets) :
                Count(chunks[n].snippets, x) > 0

WiderThanTranscript ==
    /\ transcript_data # <<>>
    /\ \A k \in 1..Len(transcript_data) :
          transcript_data[k].start_time + transcript_data[k].duration
              < chunk_duration

\* C13 as stated: a window wider than the whole transcript gives exactly one
\* chunk, [0, window width), with all the input snippets in it.
C13_OneChunkWithEverySnippet ==
    (cpc = "done" /\ WiderThanTranscript) =>
        /\ Len(chunks) = 1
        /\ chunks[1].start_time = 0
        /\ chunks[1].end_time = chunk_duration
        /\ \A x \in Elements(transcript_data) :
              Count(chunks[1].snippets, x) = Count(transcript_data, x)

\* C13 amended: a window wider than the whole transcript gives at most one
\* chunk, [0, window width), with exactly the input snippets that end after
\* time 0 in it; the zero-duration snippets at time 0 are in no chunk, and when
\* the transcript has no other snippet there is no chunk.
C13_OneChunkWithSnippetsEndingAfterZero ==
    (cpc = "done" /\ WiderThanTranscript) =>
        LET ending_after_zero ==
                { k \in 1..Len(transcript_data) :
                    transcript_data[k].start_time + transcript_data[k].duration > 0 }
        IN /\ ending_after_zero = {} => chunks = <<>>
           /\ ending_after_zero # {} =>
                 /\ Len(chunks) = 1
                 /\ chunks[1].start_time = 0
                 /\ chunks[1].end_time = chunk_duration
                 /\ Len(chunks[1].snippets) = Cardinality(ending_after_zero)
                 /\ \A x \in Elements(transcript_data) \cup Elements(chunks[1].snippets) :
                       Count(chunks[1].snippets, x) =
                           IF x.start_time + x.duration > 0
                           THEN Count(transcript_data, x)
                           ELSE 0

C13_Witness ==
    /\ cpc = "done"
    /\ WiderThanTranscript
    /\ Len(chunks) = 1
    /\ Len(chunks[1].snippets) >= 1
    /\ Len(chunks[1].snippets) < Len(transcript_data)

\* texts joined with one space between neighbours
RECURSIVE SpaceJoined(_)
SpaceJoined(texts) ==
    IF Len(texts) = 0 THEN ""
    ELSE IF Len(texts) = 1 THEN texts[1]
    ELSE SpaceJoined(SubSeq(texts, 1, Len(texts) - 1)) \o " " \o texts[Len(texts)]

\* the orders of a list of snippets in which start_time never decreases
TemporalOrders(snippets) ==
    { p \in [1..Len(snippets) -> 1..Len(snippets)] :
        /\ \A i, j \in 1..Len(snippets) : i # j => p[i] # p[j]
        /\ \A i, j \in 1..Len(snippets) :
              i < j => snippets[p[i]].start_time <= snippets[p[j]].start_time }

TextIsTemporal(chunk) ==
    \E p \in TemporalOrders(chunk.snippets) :
        chunk.text = SpaceJoined([i \in 1..Len(chunk.snippets) |->
                                      chunk.snippets[p[i]].text])

\* C14 as stated: the text of a chunk is the texts of its snippets in
\* start_time order with one space between them, also when the input is not
\* sorted.
C14_TextInTemporalOrder ==
    \A n \in 1..Len(chunks) : TextIsTemporal(chunks[n])

InputSorted ==
    \A i, j \in 1..Len(transcript_data) :
        i < j => transcript_data[i].start_time <= transcript_data[j].start_time

\* C14 amended: the text of a chunk is the texts of the input snippets that
\* overlap its window, in the order of the input, with one space between
\* them; that is start_time order when the input is sorted by start_time.
C14_TextInInputOrder ==
    \A n \in 1..Len(chunks) :
        LET in_window(x) == /\ x.start_time < chunks[n].end_time
                            /\ x.start_time + x.duration > chunks[n].start_time
            overlapping == SelectSeq(transcript_data, in_window)
        IN /\ chunks[n].text =
                  SpaceJoined([i \in 1..Len(overlapping) |-> overlapping[i].text])
           /\ InputSorted => TextIsTemporal(chunks[n])

C14_Witness ==
    /\ cpc = "done"
    /\ \E n \in 1..Len(chunks) :
          /\ Len(chunks[n].snippets) >= 2
          /\ chunks[n].snippets[1].start_time > chunks[n].snippets[2].start_time
          /\ chunks[n].text =
                 chunks[n].snippets[1].text \o " " \o chunks[n].snippets[2].text

SomeSnippetOverlaps(window_start, window_end) ==
    \E k \in 1..Len(transcript_data) :
        /\ transcript_data[k].start_time < window_end
        /\ transcript_data[k].start_time + transcript_data[k].duration > window_start

WithinTranscript(window_start) ==
    \E k \in 1..Len(transcript_data) :
        window_start <= transcript_data[k].start_time + transcript_data[k].duration

\* C15: there is a chunk for window i, with 0 <= i * width <= T_max, exactly
\* when some snippet overlaps the window: one chunk then and none otherwise,
\* no chunk past T_max, and no chunk at all for an empty transcript.
C15_ChunkIffOverlap ==
    /\ transcript_data = <<>> => chunks = <<>>
    /\ cpc = "done" =>
          /\ \A i \in WindowIndexes :
                Cardinality(ChunksAt(i * chunk_duration)) =
                    IF /\ WithinTranscript(i * chunk_duration)
                       /\ SomeSnippetOverlaps(i * chunk_duration,
                                              (i + 1) * chunk_duration)
                    THEN 1 ELSE 0
          /\ \A n \in 1..Len(chunks) :
                /\ WithinTranscript(chunks[n].start_time)
                /\ chunks[n].start_time \in
                       { i * chunk_duration : i \in WindowIndexes }

C15_Witness ==
    /\ cpc = "done"
    /\ \E i, j, k \in WindowIndexes :
          /\ i < j /\ j < k
          /\ WithinTranscript(k * chunk_duration)
          /\ ChunksAt(i * chunk_duration) # {}
          /\ ChunksAt(j * chunk_duration) = {}
          /\ ChunksAt(k * chunk_duration) # {}

(***************************************************************************)
(* The citation passes (generate_newsletter.py, lines 267-340 and          *)
(* 821-869).  An article is a sequence of pieces: a piece is either text   *)
(* that the pattern \[(\d+)\] does not match, or one match of it, kept as  *)
(* its digit string.  re.sub copies the text pieces and replaces every     *)
(* match, left to right, by what the callback returns.  The later passes   *)
(* of format_article_for_whatsapp (headers, blank lines, strip) are not    *)
(* part of the citation pass and are left out.                             *)
(***************************************************************************)
MaxPieces == 4

PlainText == [kind |-> "text", digits |-> <<>>]

\* the matches the articles are built from: [0], [1], [2], [01], [09]
DigitStrings == {<<0>>, <<1>>, <<2>>, <<0, 1>>, <<0, 9>>}

Matches == [kind : {"citation"}, digits : DigitStrings]

Articles == UNION { [1..n -> Matches \cup {PlainText}] : n \in 0..MaxPieces }

\* chunk metadata as written to the index (chromadb_setup.py, lines 94-103)
SampleChunks ==
    << [metadata |-> [video_id |-> "v1",
                      video_url |-> "https://www.youtube.com/watch?v=v1",
                      chunk_start_time |-> 0, chunk_end_time |-> 60],
        text |-> "t1"],
       [metadata |-> [video_id |-> "v2",
                      video_url |-> "",
                      chunk_start_time |-> 60, chunk_end_time |-> 120],
        text |-> "t2"] >>

ChunkLists == { SubSeq(SampleChunks, 1, n) : n \in 0..Len(SampleChunks) }

\* '?' in video_url
HasQuery(video_url) == video_url \in {"https://www.youtube.com/watch?v=v1"}

\* int(match.group(1)): the decimal value of the digit string
RECURSIVE CitationNum(_)
CitationNum(digits) ==
    IF digits = <<>> THEN 0
    ELSE 10 * CitationNum(SubSeq(digits, 1, Len(digits) - 1)) + digits[Len(digits)]

\* the ordinal printed again: f"[{citation_num}]" in place of the matched text
MatchedText_Renumbered(match) ==
    [match EXCEPT !.digits = IF CitationNum(match.digits) < 10
                             THEN <<CitationNum(match.digits)>>
                             ELSE <<CitationNum(match.digits) \div 10,
                                    CitationNum(match.digits) % 10>>]

\* match.group(0): the token as it stands in the article
MatchedText(match) == match

\* lines 285, 840, negated: the ordinal names a chunk
ValidCitation(citation_num, chunk_list) ==
    ~(citation_num < 1 \/ citation_num > Len(chunk_list))

\* only the ordinal seen last is remembered
RecordCitation_LastOnly(seen, citation_num) == {citation_num}

\* embedded_citations.add(citation_num), replaced_citations.add(citation_num)
RecordCitation(seen, citation_num) == seen \cup {citation_num}

\* lines 303-330: the embed of a chunk
EmbedHtml(citation_num, metadata) ==
    [kind |-> "video-clip",
     data_citation |-> citation_num,
     data_video_id |-> metadata.video_id,
     data_start_time |-> metadata.chunk_start_time,
     time_badge |-> <<metadata.chunk_start_time, metadata.chunk_end_time>>]

\* line 333: the link of a later occurrence
CitationLink(citation_num) == [kind |-> "citation-link", number |-> citation_num]

\* lines 854-857: the timestamped URL
TimestampUrl(metadata) ==
    IF metadata.video_url # "" /\ HasQuery(metadata.video_url)
    THEN <<metadata.video_url, "&t=", metadata.chunk_start_time, "s">>
    ELSE <<"https://www.youtube.com/watch?v=", metadata.video_id,
           "&t=", metadata.chunk_start_time, "s">>

\* line 863: the video link of a chunk
VideoLink(metadata) ==
    [kind |-> "video-link",
     times |-> <<metadata.chunk_start_time, metadata.chunk_end_time>>,
     timestamp_url |-> TimestampUrl(metadata)]

\* line 866: the number of a later occurrence
CitationNumber(citation_num) == [kind |-> "number", number |-> citation_num]

\* lines 281-333: the callback of replace_citations_with_video_clips; gives
\* the replacement and the set embedded_citations after the call
replace_citation(match, chunk_list, embedded) ==
    LET citation_num == CitationNum(match.digits) IN
    IF ~ValidCitation(citation_num, chunk_list)
    THEN [text |-> MatchedText(match), seen |-> embedded]
    ELSE IF citation_num \notin embedded
    THEN [text |-> EmbedHtml(citation_num, chunk_list[citation_num].metadata),
          seen |-> RecordCitation(embedded, citation_num)]
    ELSE [text |-> CitationLink(citation_num), seen |-> embedded]

\* lines 836-866: the callback of format_article_for_whatsapp
replace_citation_with_link(match, chunk_list, replaced) ==
    LET citation_num == CitationNum(match.digits) IN
    IF ~ValidCitation(citation_num, chunk_list)
    THEN [text |-> MatchedText(match), seen |-> replaced]
    ELSE IF citation_num \notin replaced
    THEN [text |-> VideoLink(chunk_list[citation_num].metadata),
          seen |-> RecordCitation(replaced, citation_num)]
    ELSE [text |-> CitationNumber(citation_num), seen |-> replaced]

InitCite ==
    /\ MainIdle
    /\ ChunkerIdle
    /\ SplitterIdle
    /\ xpc = "html"
    /\ article \in Articles
    /\ cited_chunks \in ChunkLists
    /\ scan_pos = 1
    /\ embedded_citations = {}
    /\ article_with_videos = <<>>
    /\ replaced_citations = {}
    /\ formatted_text = <<>>
    /\ GeneratorIdle
    /\ IngestIdle
    /\ PromptIdle

\* line 336: re.sub reaches the next piece of the article
HtmlSub ==
    /\ xpc = "html"
    /\ scan_pos <= Len(article)
    /\ LET piece == article[scan_pos]
           replaced == replace_citation(piece, cited_chunks, embedded_citations)
       IN IF piece.kind = "citation"
          THEN /\ article_with_videos' = Append(article_with_videos, replaced.text)
               /\ embedded_citations' = replaced.seen
          ELSE /\ article_with_videos' = Append(article_with_videos, piece)
               /\ UNCHANGED embedded_citations
    /\ scan_pos' = scan_pos + 1
    /\ UNCHANGED <<xpc, article, cited_chunks, replaced_citations, formatted_text>>
    /\ UNCHANGED outsideCite

\* lines 338-340: replace_citations_with_video_clips returns; main goes on to
\* format_article_for_whatsapp (line 1125)
HtmlReturn ==
    /\ xpc = "html"
    /\ scan_pos > Len(article)
    /\ xpc' = "whatsapp"
    /\ scan_pos' = 1
    /\ UNCHANGED <<article, cited_chunks, embedded_citations, article_with_videos,
                   replaced_citations, formatted_text>>
    /\ UNCHANGED outsideCite

\* line 869: re.sub reaches the next piece of the article
WhatsappSub ==
    /\ xpc = "whatsapp"
    /\ scan_pos <= Len(article)
    /\ LET piece == article[scan_pos]
           replaced == replace_citation_with_link(piece, cited_chunks,
                                                  replaced_citations)
       IN IF piece.kind = "citation"
          THEN /\ formatted_text' = Append(formatted_text, replaced.text)
               /\ replaced_citations' = replaced.seen
          ELSE /\ formatted_text' = Append(formatted_text, piece)
               /\ UNCHANGED replaced_citations
    /\ scan_pos' = scan_pos + 1
    /\ UNCHANGED <<xpc, article, cited_chunks, embedded_citations, article_with_videos>>
    /\ UNCHANGED outsideCite

\* line 869: the citation pass of format_article_for_whatsapp is over
WhatsappReturn ==
    /\ xpc = "whatsapp"
    /\ scan_pos > Len(article)
    /\ xpc' = "done"
    /\ UNCHANGED <<article, cited_chunks, scan_pos, embedded_citations,
                   article_with_videos, replaced_citations, formatted_text>>
    /\ UNCHANGED outsideCite

NextCite ==
    \/ HtmlSub
    \/ HtmlReturn
    \/ WhatsappSub
    \/ WhatsappReturn

SpecCite == InitCite /\ [][NextCite]_vars

RECURSIVE PowerOfTen(_)
PowerOfTen(k) == IF k = 0 THEN 1 ELSE 10 * PowerOfTen(k - 1)

RECURSIVE SumOver(_, _)
SumOver(f, S) ==
    IF S = {} THEN 0
    ELSE LET x == CHOOSE y \in S : TRUE IN f[x] + SumOver(f, S \ {x})

\* the number a digit string denotes
DecimalValue(digits) ==
    SumOver([i \in 1..Len(digits) |-> digits[i] * PowerOfTen(Len(digits) - i)],
            1..Len(digits))

Cited(p) == article[p].kind = "citation"

Ordinal(p) == DecimalValue(article[p].digits)

OutOfRange(p) ==
    Cited(p) /\ (Ordinal(p) < 1 \/ Ordinal(p) > Len(cited_chunks))

InRange(p) ==
    Cited(p) /\ 1 <= Ordinal(p) /\ Ordinal(p) <= Len(cited_chunks)

\* C16: in both citation passes a token [n] with n < 1 or n > len(chunks)
\* stands in the output as it stood in the article, and n is in neither set
\* of rendered ordinals.
C16_InvalidCitationUnchanged ==
    /\ \A p \in 1..Len(article_with_videos) :
          OutOfRange(p) => article_with_videos[p] = article[p]
    /\ \A p \in 1..Len(formatted_text) :
          OutOfRange(p) => formatted_text[p] = article[p]
    /\ \A n \in embedded_citations \cup replaced_citations :
          1 <= n /\ n <= Len(cited_chunks)
    /\ xpc = "done" => /\ Len(article_with_videos) = Len(article)
                       /\ Len(formatted_text) = Len(article)

C16_Witness ==
    /\ xpc = "done"
    /\ cited_chunks # <<>>
    /\ \E p, q, r \in 1..Len(article) :
          /\ article[p].digits = <<0>>
          /\ article[q].digits = <<0, 9>>
          /\ InRange(r)
          /\ article_with_videos[p] = article[p]
          /\ formatted_text[p] = article[p]
          /\ article_with_videos[q] = article[q]
          /\ formatted_text[q] = article[q]
          /\ article_with_videos[r] # article[r]
          /\ formatted_text[r] # article[r]

FirstOccurrence(p) ==
    \A q \in 1..(p - 1) : Cited(q) => Ordinal(q) # Ordinal(p)

DistinctValidOrdinals == { Ordinal(p) : p \in { q \in 1..Len(article) : InRange(q) } }

\* C17: in both citation passes, scanning left to right, the first token of a
\* valid ordinal n becomes the rich rendering of chunks[n-1] and every later
\* token of n the repeat marker of n; the rich renderings are as many as the
\* distinct valid ordinals of the article.
C17_FirstRichThenRepeat ==
    /\ \A p \in 1..Len(article_with_videos) :
          InRange(p) =>
              LET n == Ordinal(p)
                  metadata == cited_chunks[n].metadata
              IN IF FirstOccurrence(p)
                 THEN article_with_videos[p] =
                          [kind |-> "video-clip",
                           data_citation |-> n,
                           data_video_id |-> metadata.video_id,
                           data_start_time |-> metadata.chunk_start_time,
                           time_badge |-> <<metadata.chunk_start_time,
                                            metadata.chunk_end_time>>]
                 ELSE article_with_videos[p] =
                          [kind |-> "citation-link", number |-> n]
    /\ \A p \in 1..Len(formatted_text) :
          InRange(p) =>
              LET n == Ordinal(p)
                  metadata == cited_chunks[n].metadata
              IN IF FirstOccurrence(p)
                 THEN /\ formatted_text[p].kind = "video-link"
                      /\ formatted_text[p].times =
                             <<metadata.chunk_start_time, metadata.chunk_end_time>>
                      /\ formatted_text[p].timestamp_url \in
                             { <<metadata.video_url, "&t=",
                                 metadata.chunk_start_time, "s">>,
                               <<"https://www.youtube.com/watch?v=",
                                 metadata.video_id, "&t=",
                                 metadata.chunk_start_time, "s">> }
                 ELSE formatted_text[p] = [kind |-> "number", number |-> n]
    /\ xpc = "done" =>
          /\ Cardinality({ p \in 1..Len(article_with_videos) :
                             article_with_videos[p].kind = "video-clip" })
                 = Cardinality(DistinctValidOrdinals)
          /\ Cardinality({ p \in 1..Len(formatted_text) :
                             formatted_text[p].kind = "video-link" })
                 = Cardinality(DistinctValidOrdinals)
          /\ Cardinality(embedded_citations) = Cardinality(DistinctValidOrdinals)

C17_Witness ==
    /\ xpc = "done"
    /\ \E p, q, r \in 1..Len(article) :
          /\ p < q /\ q < r
          /\ InRange(p) /\ InRange(q) /\ InRange(r)
          /\ Ordinal(p) = Ordinal(r)
          /\ Ordinal(q) # Ordinal(p)
          /\ article_with_videos[p].kind = "video-clip"
          /\ article_with_videos[q].kind = "video-clip"
          /\ article_with_videos[r].kind = "citation-link"
          /\ formatted_text[p].kind = "video-link"
          /\ formatted_text[r].kind = "number"

(***************************************************************************)
(* split_message_intelligently (generate_newsletter.py, lines 887-953).    *)
(* A text is kept run-length encoded: a sequence of runs [c, n], n >= 1    *)
(* copies of the character c, neighbouring runs of different characters.   *)
(* The characters are "a" (any character that is neither white space nor   *)
(* part of a divider), " ", "\n" and "=", three of which in a row make a   *)
(* divider line (line 903; the test for the heavy-rule divider is alike).  *)
(***************************************************************************)
MaxLines == 5

\* the limits tried
Limits == 1..8

DefaultMaxLength == 1500

Run(c, n) == <<[c |-> c, n |-> n]>>

Whitespace == {" ", "\n"}

\* s + t
Cat(s, t) ==
    IF s = <<>> THEN t
    ELSE IF t = <<>> THEN s
    ELSE IF s[Len(s)].c = t[1].c
    THEN SubSeq(s, 1, Len(s) - 1)
             \o Run(t[1].c, s[Len(s)].n + t[1].n)
             \o Tail(t)
    ELSE s \o t

\* len(s)
RECURSIVE StrLen(_)
StrLen(s) == IF s = <<>> THEN 0 ELSE s[1].n + StrLen(Tail(s))

\* s.strip()
RECURSIVE Strip(_)
Strip(s) ==
    IF s = <<>> THEN s
    ELSE IF s[1].c \in Whitespace THEN Strip(Tail(s))
    ELSE IF s[Len(s)].c \in Whitespace THEN Strip(SubSeq(s, 1, Len(s) - 1))
    ELSE s

\* s.split(sep) for sep = '\n' (width 1) and sep = '\n\n' (width 2): a run of
\* k newlines holds k \div width separators, found left to right, and leaves
\* k % width newlines at the head of the next piece
RECURSIVE SplitFrom(_, _, _, _)
SplitFrom(s, width, piece, pieces) ==
    IF s = <<>> THEN Append(pieces, piece)
    ELSE IF s[1].c = "\n" /\ s[1].n >= width
    THEN SplitFrom(Tail(s), width,
                   IF s[1].n % width = 0 THEN <<>> ELSE Run("\n", s[1].n % width),
                   Append(pieces, piece)
                       \o [i \in 1..((s[1].n \div width) - 1) |-> <<>>])
    ELSE SplitFrom(Tail(s), width, Cat(piece, <<s[1]>>), pieces)

Split(s, width) == SplitFrom(s, width, <<>>, <<>>)

\* sep.join(parts) for sep a run of newlines
RECURSIVE Join(_, _)
Join(parts, width) ==
    IF parts = <<>> THEN <<>>
    ELSE IF Len(parts) = 1 THEN parts[1]
    ELSE Cat(parts[1], Cat(Run("\n", width), Join(Tail(parts), width)))

\* line 903: '===' in line
IsDivider(line) == \E i \in 1..Len(line) : line[i].c = "=" /\ line[i].n >= 3

\* the first pass without `if current_section: sections.append(...)` after
\* the loop
RECURSIVE SectionsFrom_NoLast(_, _, _)
SectionsFrom_NoLast(lines, current_section, done) ==
    IF lines = <<>> THEN done
    ELSE IF IsDivider(lines[1])
    THEN SectionsFrom_NoLast(Tail(lines), <<lines[1]>>,
                             IF current_section # <<>>
                             THEN Append(done, Join(current_section, 1))
                             ELSE done)
    ELSE SectionsFrom_NoLast(Tail(lines), Append(current_section, lines[1]), done)

\* lines 898-914: the first pass; current_section is a list of lines
RECURSIVE SectionsFrom(_, _, _)
SectionsFrom(lines, current_section, done) ==
    IF lines = <<>>
    THEN IF current_section # <<>>
         THEN Append(done, Join(current_section, 1))
         ELSE done
    ELSE IF IsDivider(lines[1])
    THEN SectionsFrom(Tail(lines), <<lines[1]>>,
                      IF current_section # <<>>
                      THEN Append(done, Join(current_section, 1))
                      ELSE done)
    ELSE SectionsFrom(Tail(lines), Append(current_section, lines[1]), done)

\* the separator left out of the count
Overflows_NoSeparator(current_chunk, section, limit) ==
    /\ current_chunk # <<>>
    /\ StrLen(Strip(current_chunk)) + StrLen(section) > limit

\* line 922: the section does not fit into the chunk being filled
Overflows(current_chunk, section, limit) ==
    /\ current_chunk # <<>>
    /\ StrLen(current_chunk) + StrLen(section) + 2 > limit

\* lines 916-930: the second pass
RECURSIVE GroupFrom(_, _, _, _)
GroupFrom(rest, current_chunk, done, limit) ==
    IF rest = <<>>
    THEN IF Strip(current_chunk) # <<>>
         THEN Append(done, Strip(current_chunk))
         ELSE done
    ELSE IF Overflows(current_chunk, rest[1], limit)
    THEN GroupFrom(Tail(rest), Cat(rest[1], Run("\n", 2)),
                   Append(done, Strip(current_chunk)), limit)
    ELSE GroupFrom(Tail(rest), Cat(current_chunk, Cat(rest[1], Run("\n", 2))),
                   done, limit)

\* the separator left out of the count
FitsParagraph_NoSeparator(temp_chunk, para, limit) ==
    StrLen(Strip(temp_chunk)) + StrLen(para) <= limit

\* line 943: the paragraph fits into the chunk being filled
FitsParagraph(temp_chunk, para, limit) ==
    StrLen(temp_chunk) + StrLen(para) + 2 <= limit

\* lines 939-951: the paragraphs of one chunk that is too long
RECURSIVE ParagraphsFrom(_, _, _, _)
ParagraphsFrom(paragraphs, temp_chunk, done, limit) ==
    IF paragraphs = <<>>
    THEN IF Strip(temp_chunk) # <<>>
         THEN Append(done, Strip(temp_chunk))
         ELSE done
    ELSE IF FitsParagraph(temp_chunk, paragraphs[1], limit)
    THEN ParagraphsFrom(Tail(paragraphs),
                        Cat(temp_chunk, Cat(paragraphs[1], Run("\n", 2))),
                        done, limit)
    ELSE ParagraphsFrom(Tail(paragraphs), Cat(paragraphs[1], Run("\n", 2)),
                        IF Strip(temp_chunk) # <<>>
                        THEN Append(done, Strip(temp_chunk))
                        ELSE done,
                        limit)

\* lines 932-953: the third pass
RECURSIVE FinalFrom(_, _, _)
FinalFrom(rest, done, limit) ==
    IF rest = <<>> THEN done
    ELSE IF StrLen(rest[1]) <= limit
    THEN FinalFrom(Tail(rest), Append(done, rest[1]), limit)
    ELSE FinalFrom(Tail(rest),
                   ParagraphsFrom(Split(rest[1], 2), <<>>, done, limit),
                   limit)

\* the lines the messages are built from: "", "a", "aaa", " ", "==="
Lines == {<<>>, Run("a", 1), Run("a", 3), Run(" ", 1), Run("=", 3)}

Messages == { Join(lines, 1) : lines \in UNION { [1..n -> Lines] : n \in 1..MaxLines } }

\* three sections, each a divider line and a body line, of 800 characters each
ThreeSections ==
    LET section == <<Run("=", 3), Run("a", 796)>>
    IN Join(section \o section \o section, 1)

InitSplit ==
    /\ MainIdle
    /\ ChunkerIdle
    /\ CiterIdle
    /\ spc = "sections"
    /\ \/ message \in Messages /\ max_length \in Limits
       \/ message = ThreeSections /\ max_length = DefaultMaxLength
    /\ sections = <<>>
    /\ section_chunks = <<>>
    /\ final_chunks = <<>>
    /\ GeneratorIdle
    /\ IngestIdle
    /\ PromptIdle

\* lines 898-914: the message is split into sections
SplitIntoSections ==
    /\ spc = "sections"
    /\ sections' = SectionsFrom(Split(message, 1), <<>>, <<>>)
    /\ spc' = "group"
    /\ UNCHANGED <<message, max_length, section_chunks, final_chunks>>
    /\ UNCHANGED outsideSplit

\* lines 916-930: the sections are grouped into chunks
GroupSections ==
    /\ spc = "group"
    /\ section_chunks' = GroupFrom(sections, <<>>, <<>>, max_length)
    /\ spc' = "paragraphs"
    /\ UNCHANGED <<message, max_length, sections, final_chunks>>
    /\ UNCHANGED outsideSplit

\* lines 932-953: chunks that are too long are split by paragraphs
SplitLongChunks ==
    /\ spc = "paragraphs"
    /\ final_chunks' = FinalFrom(section_chunks, <<>>, max_length)
    /\ spc' = "done"
    /\ UNCHANGED <<message, max_length, sections, section_chunks>>
    /\ UNCHANGED outsideSplit

NextSplit ==
    \/ SplitIntoSections
    \/ GroupSections
    \/ SplitLongChunks

SpecSplit == InitSplit /\ [][NextSplit]_vars

\* no blank-line separator inside the text
OneParagraph(text) ==
    \A i \in 1..Len(text) : ~(text[i].c = "\n" /\ text[i].n >= 2)

\* the paragraphs of the sections of the message, surrounding white space off
WholeParagraphs ==
    UNION { { Strip(Split(sections[i], 2)[j]) :
                j \in 1..Len(Split(sections[i], 2)) } :
            i \in 1..Len(sections) }

\* C18: every segment returned is at most max_length characters long, except
\* a segment that is exactly one paragraph of the message (no blank-line
\* separator in it) longer than max_length, which is returned whole.
C18_SegmentsWithinLimit ==
    spc = "done" =>
        \A i \in 1..Len(final_chunks) :
            \/ StrLen(final_chunks[i]) <= max_length
            \/ /\ OneParagraph(final_chunks[i])
               /\ final_chunks[i] \in WholeParagraphs

C18_Witness ==
    /\ spc = "done"
    /\ \E i, j \in 1..Len(final_chunks) :
          /\ StrLen(final_chunks[i]) > max_length
          /\ StrLen(final_chunks[j]) <= max_length
          /\ ~OneParagraph(final_chunks[j])

\* C19 as stated: three divider-delimited sections of 800 characters each and
\* max_length = 1500 give exactly two segments.
C19_ThreeSectionsTwoSegments ==
    (spc = "done" /\ message = ThreeSections /\ max_length = DefaultMaxLength) =>
        Len(final_chunks) = 2

ThreeEqualSections ==
    /\ Len(sections) = 3
    /\ \A i \in 1..3 :
          /\ IsDivider(Split(sections[i], 1)[1])
          /\ Strip(sections[i]) = sections[i]
          /\ StrLen(sections[i]) = StrLen(sections[1])

\* C19 amended: three divider-delimited sections of L characters each, with
\* L <= max_length < 2 * L + 4, give exactly three segments, the three
\* sections; so it is for L = 800 and max_length = 1500.
C19_ThreeSectionsThreeSegments ==
    (/\ spc = "done"
     /\ ThreeEqualSections
     /\ StrLen(sections[1]) <= max_length
     /\ max_length < 2 * StrLen(sections[1]) + 4) =>
        final_chunks = sections

C19_Witness ==
    /\ spc = "done"
    /\ message = ThreeSections
    /\ max_length = DefaultMaxLength
    /\ ThreeEqualSections
    /\ Len(final_chunks) = 3
    /\ \A i \in 1..3 : StrLen(final_chunks[i]) = 800

\* C20: no segment returned is empty or only white space.
C20_NoEmptySegment ==
    \A i \in 1..Len(final_chunks) : Strip(final_chunks[i]) # <<>>

NonBlank(line) == Strip(line) # <<>>

\* the non-blank lines of a text, surrounding white space off, in order
ContentLines(text) ==
    LET kept == SelectSeq(Split(text, 1), NonBlank)
    IN [i \in 1..Len(kept) |-> Strip(kept[i])]

RECURSIVE ContentOfAll(_)
ContentOfAll(texts) ==
    IF texts = <<>> THEN <<>>
    ELSE ContentLines(texts[1]) \o ContentOfAll(Tail(texts))

MessageLines == Split(message, 1)

\* how many content lines each segment holds
SegmentSizes == [k \in 1..Len(final_chunks) |-> Len(ContentLines(final_chunks[k]))]

\* the i-th content line of the message is in this segment
RECURSIVE SegmentOfFrom(_, _, _)
SegmentOfFrom(sizes, i, k) ==
    IF k >= Len(sizes) \/ i <= sizes[k]
    THEN k
    ELSE SegmentOfFrom(sizes, i - sizes[k], k + 1)

SegmentOf(sizes, i) == SegmentOfFrom(sizes, i, 1)

\* how many of the lines 1..i of the message are content lines
ContentRank(lines, i) == Cardinality({ j \in 1..i : NonBlank(lines[j]) })

\* a divider line i of the message and the first content line j after it,
\* when that is not a divider
DividerWithContent(lines, i, j) ==
    /\ i < j
    /\ IsDivider(lines[i])
    /\ NonBlank(lines[j])
    /\ ~IsDivider(lines[j])
    /\ \A n \in (i + 1)..(j - 1) : ~NonBlank(lines[n])

\* the section that the divider line i of the message starts
SectionOfDivider(lines, i) ==
    Cardinality({ j \in 1..i : IsDivider(lines[j]) })
        + (IF IsDivider(lines[1]) THEN 0 ELSE 1)

\* divider i and its content j are in one segment
SameSegment(lines, sizes, i, j) ==
    SegmentOf(sizes, ContentRank(lines, i)) = SegmentOf(sizes, ContentRank(lines, j))

ContentKept == ContentOfAll(final_chunks) = ContentLines(message)

DividersStartSections ==
    /\ ContentOfAll(sections) = ContentLines(message)
    /\ \A s \in 1..Len(sections) :
          LET section_lines == Split(sections[s], 1) IN
          \A n \in 2..Len(section_lines) : ~IsDivider(section_lines[n])

\* C21 as stated: the segments in output order hold every non-blank line of
\* the message once and in order, a divider line is the first line of its
\* section, and it is in the segment of the content that follows it.
C21_ContentKeptDividerWithContent ==
    spc = "done" =>
        /\ ContentKept
        /\ DividersStartSections
        /\ LET lines == MessageLines
               sizes == SegmentSizes
           IN \A i, j \in 1..Len(lines) :
                 DividerWithContent(lines, i, j) => SameSegment(lines, sizes, i, j)

\* C21 amended: the segments in output order hold every non-blank line of the
\* message once and in order, a divider line is the first line of its
\* section, and it is in the segment of the content that follows it unless
\* its section is longer than max_length and an empty line lies between the
\* two.
C21_ContentKeptDividerUnlessSplit ==
    spc = "done" =>
        /\ ContentKept
        /\ DividersStartSections
        /\ LET lines == MessageLines
               sizes == SegmentSizes
           IN \A i, j \in 1..Len(lines) :
                 DividerWithContent(lines, i, j) =>
                     \/ SameSegment(lines, sizes, i, j)
                     \/ /\ StrLen(Strip(sections[SectionOfDivider(lines, i)])) > max_length
                        /\ \E n \in (i + 1)..(j - 1) : lines[n] = <<>>

C21_Witness ==
    /\ spc = "done"
    /\ Len(ContentLines(message)) >= 3
    /\ LET lines == MessageLines
           sizes == SegmentSizes
       IN /\ \E i, j \in 1..Len(lines) :
                /\ DividerWithContent(lines, i, j)
                /\ ~SameSegment(lines, sizes, i, j)
          /\ \E i, j \in 1..Len(lines) :
                /\ DividerWithContent(lines, i, j)
                /\ SameSegment(lines, sizes, i, j)

(***************************************************************************)
(* generate_article_with_gemini (generate_newsletter.py, lines 195-264).   *)
(* The message of an exception is kept as the set of those of the four     *)
(* substrings the handler looks for that occur in error_msg.lower(); a     *)
(* message with "rate limit" has "limit".  The statement after the loop    *)
(* (line 264) is never reached: every path of the last iteration returns   *)
(* or raises.                                                              *)
(***************************************************************************)
max_retries == 3

retry_delay == 2

ErrorMessages ==
    { m \in SUBSET {"rate limit", "quota", "token", "limit"} :
        "rate limit" \in m => "limit" \in m }

\* what one call of client.models.generate_content can give: a response with
\* text, a response without text but with parts, a response without either
\* (or None), or an exception
Responses ==
    [kind : {"text", "parts", "empty"}, msg : {{}}]
        \cup [kind : {"exception"}, msg : ErrorMessages]

\* the wait of every retry the same
RateLimitWait_Fixed(n) == retry_delay

\* line 241: retry_delay * (2 ** attempt)
RECURSIVE RateLimitWait(_)
RateLimitWait(n) == IF n = 0 THEN retry_delay ELSE 2 * RateLimitWait(n - 1)

\* line 259: time.sleep(retry_delay)
OtherWait == retry_delay

\* line 239
IsRateLimit(msg) == "rate limit" \in msg \/ "quota" \in msg

\* "limit" alone taken for a token limit
IsTokenLimit_LimitOnly(msg) == "limit" \in msg

\* line 249
IsTokenLimit(msg) == "token" \in msg /\ "limit" \in msg

InitGen ==
    /\ MainIdle
    /\ ChunkerIdle
    /\ CiterIdle
    /\ SplitterIdle
    /\ IngestIdle
    /\ gpc = "call"
    /\ attempt = 0
    /\ error_msg = {}
    /\ responses = <<>>
    /\ sleeps = <<>>
    /\ returned_text = "none"
    /\ gen_raised = "none"
    /\ PromptIdle

\* lines 210-235: the call and the checks of the response; a response without
\* text and without parts raises ValueError("No content generated by Gemini"),
\* which the handler of line 235 catches like any other exception
GenCall ==
    /\ gpc = "call"
    /\ \E response \in Responses :
          /\ responses' = Append(responses, response)
          /\ CASE response.kind = "text" ->
                    /\ returned_text' = <<"response.text", Len(responses) + 1>>
                    /\ gpc' = "returned"
                    /\ UNCHANGED error_msg
               [] response.kind = "parts" ->
                    /\ returned_text' = <<"str(response.parts)", Len(responses) + 1>>
                    /\ gpc' = "returned"
                    /\ UNCHANGED error_msg
               [] response.kind = "empty" ->
                    /\ error_msg' = {}
                    /\ gpc' = "except"
                    /\ UNCHANGED returned_text
               [] response.kind = "exception" ->
                    /\ error_msg' = response.msg
                    /\ gpc' = "except"
                    /\ UNCHANGED returned_text
    /\ UNCHANGED <<attempt, sleeps, gen_raised>>
    /\ UNCHANGED outsideGen

\* lines 239-244: a rate limit with attempts left
GenRateLimitRetry ==
    /\ gpc = "except"
    /\ IsRateLimit(error_msg)
    /\ attempt < max_retries - 1
    /\ sleeps' = Append(sleeps, RateLimitWait(attempt))
    /\ attempt' = attempt + 1
    /\ gpc' = "call"
    /\ UNCHANGED <<error_msg, responses, returned_text, gen_raised>>
    /\ UNCHANGED outsideGen

\* lines 245-246: a rate limit at the last attempt
GenRateLimitFail ==
    /\ gpc = "except"
    /\ IsRateLimit(error_msg)
    /\ ~(attempt < max_retries - 1)
    /\ gen_raised' = "RuntimeError: Rate limit exceeded"
    /\ gpc' = "raised"
    /\ UNCHANGED <<attempt, error_msg, responses, sleeps, returned_text>>
    /\ UNCHANGED outsideGen

\* lines 249-253: a token limit
GenTokenLimit ==
    /\ gpc = "except"
    /\ ~IsRateLimit(error_msg)
    /\ IsTokenLimit(error_msg)
    /\ gen_raised' = "RuntimeError: Token limit exceeded"
    /\ gpc' = "raised"
    /\ UNCHANGED <<attempt, error_msg, responses, sleeps, returned_text>>
    /\ UNCHANGED outsideGen

\* lines 256-260: another error with attempts left
GenOtherRetry ==
    /\ gpc = "except"
    /\ ~IsRateLimit(error_msg)
    /\ ~IsTokenLimit(error_msg)
    /\ attempt < max_retries - 1
    /\ sleeps' = Append(sleeps, OtherWait)
    /\ attempt' = attempt + 1
    /\ gpc' = "call"
    /\ UNCHANGED <<error_msg, responses, returned_text, gen_raised>>
    /\ UNCHANGED outsideGen

\* lines 261-262: another error at the last attempt
GenOtherFail ==
    /\ gpc = "except"
    /\ ~IsRateLimit(error_msg)
    /\ ~IsTokenLimit(error_msg)
    /\ ~(attempt < max_retries - 1)
    /\ gen_raised' = "RuntimeError: Failed to generate article"
    /\ gpc' = "raised"
    /\ UNCHANGED <<attempt, error_msg, responses, sleeps, returned_text>>
    /\ UNCHANGED outsideGen

NextGen ==
    \/ GenCall
    \/ GenRateLimitRetry
    \/ GenRateLimitFail
    \/ GenTokenLimit
    \/ GenOtherRetry
    \/ GenOtherFail

SpecGen == InitGen /\ [][NextGen]_vars

Failed(response) == response.kind \in {"empty", "exception"}

\* a failed call whose exception the handler takes for a rate limit
RateLimited(response) ==
    response.kind = "exception"
        /\ ("rate limit" \in response.msg \/ "quota" \in response.msg)

\* a failed call that the handler gives up on at once
TokenLimited(response) ==
    /\ response.kind = "exception"
    /\ "token" \in response.msg /\ "limit" \in response.msg
    /\ "rate limit" \notin response.msg /\ "quota" \notin response.msg

RECURSIVE TwoToThe(_)
TwoToThe(k) == IF k = 0 THEN 1 ELSE 2 * TwoToThe(k - 1)

GenOver == gpc \in {"returned", "raised"}

\* at most three calls, the text of the first call that succeeds is returned
\* and no call follows it, and the function raises when the third call failed
BoundedAttempts ==
    /\ Len(responses) <= 3
    /\ \A k \in 1..(Len(responses) - 1) : Failed(responses[k])
    /\ Len(sleeps) = attempt
    /\ gpc = "returned" =>
          /\ ~Failed(responses[Len(responses)])
          /\ returned_text[2] = Len(responses)
          /\ returned_text[1] =
                 IF responses[Len(responses)].kind = "text"
                 THEN "response.text" ELSE "str(response.parts)"
          /\ gen_raised = "none"
    /\ gpc = "raised" =>
          /\ Failed(responses[Len(responses)])
          /\ returned_text = "none"
          /\ gen_raised # "none"
    /\ (Len(responses) = 3 /\ Failed(responses[3]) /\ gpc # "except") =>
          gpc = "raised"

\* C22 as stated: every failed call short of the third, a token-limit error
\* aside, is followed by a wait and another call, the wait before retry k
\* being retry_delay * 2^(k-1), whatever the failure;
\* at most three calls; the first successful text is returned; an error is
\* raised once the third call has failed.
C22_EveryFailureRetriedWithBackoff ==
    /\ BoundedAttempts
    /\ \A k \in 1..Len(sleeps) : sleeps[k] = 2 * TwoToThe(k - 1)
    /\ gpc = "raised" =>
          \/ Len(responses) = 3
          \/ TokenLimited(responses[Len(responses)])

\* C22 amended: a failed call short of the third is followed by a wait and
\* another call unless it is a token-limit error, after which the function
\* raises at once; the wait before retry k is retry_delay * 2^(k-1) after a
\* rate-limit error and retry_delay after any other failure; at most three
\* calls; the first successful text is returned; an error is raised once the
\* third call has failed.
C22_RetriedRateLimitWithBackoff ==
    /\ BoundedAttempts
    /\ \A k \in 1..Len(sleeps) :
          sleeps[k] = IF RateLimited(responses[k]) THEN 2 * TwoToThe(k - 1) ELSE 2
    /\ \A k \in 1..Len(sleeps) : ~TokenLimited(responses[k])
    /\ gpc = "raised" =>
          \/ Len(responses) = 3
          \/ TokenLimited(responses[Len(responses)])
    /\ GenOver =>
          Len(sleeps) = Len(responses) - 1

C22_Witness ==
    /\ gpc = "returned"
    /\ Len(responses) = 3
    /\ RateLimited(responses[1])
    /\ RateLimited(responses[2])
    /\ sleeps = <<2, 4>>
    /\ returned_text = <<"response.text", 3>>

\* C30: a response without text and without parts is never what the function
\* returns: it is handled as an error of the general kind, retried after the
\* fixed retry_delay and, at the third call, ended with the RuntimeError of a
\* failed generation; an exception whose message has "token" and "limit" but
\* neither "rate limit" nor "quota" ends the function at once with the
\* token-limit RuntimeError, no wait and no further call, and only such an
\* exception does.
C30_EmptyRetriedTokenLimitAborts ==
    /\ \A k \in 1..Len(responses) :
          responses[k].kind = "empty" =>
              /\ ~(gpc = "returned" /\ k = Len(responses))
              /\ (k < 3 /\ ~(gpc = "except" /\ k = Len(responses))) =>
                    /\ Len(sleeps) >= k
                    /\ sleeps[k] = 2
                    /\ Len(responses) > k \/ gpc = "call"
              /\ (k = 3 /\ gpc # "except") =>
                    /\ gpc = "raised"
                    /\ gen_raised = "RuntimeError: Failed to generate article"
                    /\ returned_text = "none"
    /\ \A k \in 1..Len(responses) :
          TokenLimited(responses[k]) =>
              /\ k = Len(responses)
              /\ Len(sleeps) = k - 1
              /\ gpc # "except" =>
                    /\ gpc = "raised"
                    /\ gen_raised = "RuntimeError: Token limit exceeded"
    /\ gen_raised = "RuntimeError: Token limit exceeded" =>
          TokenLimited(responses[Len(responses)])

C30_Witness ==
    /\ gpc = "raised"
    /\ Len(responses) = 2
    /\ responses[1].kind = "empty"
    /\ TokenLimited(responses[2])
    /\ sleeps = <<2>>
    /\ gen_raised = "RuntimeError: Token limit exceeded"

(***************************************************************************)
(* The ingestion loop: main of fetch_youtube_data.py (lines 288-383).      *)
(* to_process is the sequence of videos that `for channel` and `for video  *)
(* in videos[0:3]` visit, each with what get_video_transcript returns for  *)
(* it.  A value that may be None is a record with the flag is_none.  A     *)
(* file is the sequence of the complete records it holds.                  *)
(***************************************************************************)
MaxVideos == 3

ChunkSeconds == 60

None == [is_none |-> TRUE, value |-> <<>>]

Some(value) == [is_none |-> FALSE, value |-> value]

\* what get_video_transcript can return: None (no transcript, or any
\* exception), an empty snippet list, snippets within one window, snippets
\* over two windows
FetchedTranscripts ==
    { None,
      Some(<<>>),
      Some(<<[text |-> "a", start_time |-> 0, duration |-> 30]>>),
      Some(<<[text |-> "a", start_time |-> 0, duration |-> 30],
             [text |-> "b", start_time |-> 50, duration |-> 20]>>) }

VideoIds == <<"v1", "v2", "v3", "v4">>

VideoLists ==
    UNION { { videos \in [1..n -> [video_id : { VideoIds[i] : i \in 1..n },
                                   fetched : FetchedTranscripts]] :
                \A i \in 1..n : videos[i].video_id = VideoIds[i] } :
            n \in 0..MaxVideos }

\* `if transcript_data is not None`
Truthy_NotNone(fetched) == ~fetched.is_none

\* line 320: `if transcript_data`
Truthy(fetched) ==
    ~fetched.is_none /\ fetched.value # <<>>

\* chunk_transcript_by_time as a function: lines 249-286
RECURSIVE WindowsFrom(_, _, _, _)
WindowsFrom(data, duration, chunk_start, done) ==
    IF chunk_start <= MaxEndTime(data)
    THEN LET chunk_end == chunk_start + duration
             snippets_in_chunk == SnippetsInChunk(data, chunk_start, chunk_end)
         IN WindowsFrom(data, duration, chunk_end,
                        IF snippets_in_chunk # <<>>
                        THEN Append(done, [text |-> JoinTexts(snippets_in_chunk),
                                           start_time |-> chunk_start,
                                           end_time |-> chunk_end,
                                           snippets |-> snippets_in_chunk])
                        ELSE done)
    ELSE done

\* lines 245-286
ChunkTranscriptByTime(data, duration) ==
    IF data = <<>> THEN <<>> ELSE WindowsFrom(data, duration, 0, <<>>)

\* lines 326-350: the flattened record of one chunk
ChunkRecord(video, chunk) ==
    [video_id |-> video.video_id,
     chunk_start_time |-> chunk.start_time,
     chunk_end_time |-> chunk.end_time,
     chunk_duration |-> chunk.end_time - chunk.start_time,
     text |-> chunk.text,
     snippet_count |-> Len(chunk.snippets)]

\* lines 353-362: the record of one video
VideoRecord(video, transcript_chunks) ==
    [video_id |-> video.video_id,
     transcript |-> video.fetched,
     transcript_chunks |-> transcript_chunks]

\* what open(output_file, 'w') and the writes leave in the file: all the
\* records when the write succeeds, fewer when an exception ends it
FileAfterWrite(records) == { SubSeq(records, 1, k) : k \in 0..Len(records) }

InitIngest ==
    /\ MainIdle
    /\ ChunkerIdle
    /\ CiterIdle
    /\ SplitterIdle
    /\ GeneratorIdle
    /\ ipc = "video"
    /\ to_process \in VideoLists
    /\ video_i = 1
    /\ all_data = <<>>
    /\ all_chunked_data = <<>>
    /\ data_file = <<>>
    /\ chunk_file = <<>>
    /\ chunker_calls = 0
    /\ PromptIdle

\* lines 312-364: one video is fetched, chunked and recorded
ProcessVideo ==
    /\ ipc = "video"
    /\ video_i <= Len(to_process)
    /\ LET video == to_process[video_i]
           transcript_chunks ==
               ChunkTranscriptByTime(video.fetched.value, ChunkSeconds)
       IN IF Truthy(video.fetched)
          THEN /\ chunker_calls' = chunker_calls + 1
               /\ all_chunked_data' =
                      all_chunked_data
                          \o [i \in 1..Len(transcript_chunks) |->
                                 ChunkRecord(video, transcript_chunks[i])]
               /\ all_data' = Append(all_data,
                                     VideoRecord(video, Some(transcript_chunks)))
          ELSE /\ all_data' = Append(all_data, VideoRecord(video, None))
               /\ UNCHANGED <<chunker_calls, all_chunked_data>>
    /\ ipc' = "save_data"
    /\ UNCHANGED <<to_process, video_i, data_file, chunk_file>>
    /\ UNCHANGED outsideIngest

\* lines 366-368 and 199-207: save_data_to_file; an exception while writing
\* is caught and the job goes on
SaveData ==
    /\ ipc = "save_data"
    /\ data_file' \in FileAfterWrite(all_data)
    /\ ipc' = "save_chunks"
    /\ UNCHANGED <<to_process, video_i, all_data, all_chunked_data, chunk_file,
                   chunker_calls>>
    /\ UNCHANGED outsideIngest

\* lines 370-372 and 209-228: save_chunked_transcripts, called when there is
\* a chunk record
SaveChunks ==
    /\ ipc = "save_chunks"
    /\ IF all_chunked_data # <<>>
       THEN chunk_file' \in FileAfterWrite(all_chunked_data)
       ELSE UNCHANGED chunk_file
    /\ video_i' = video_i + 1
    /\ ipc' = "video"
    /\ UNCHANGED <<to_process, all_data, all_chunked_data, data_file,
                   chunker_calls>>
    /\ UNCHANGED outsideIngest

\* lines 374-383: the loops are over
IngestDone ==
    /\ ipc = "video"
    /\ video_i > Len(to_process)
    /\ ipc' = "done"
    /\ UNCHANGED <<to_process, video_i, all_data, all_chunked_data, data_file,
                   chunk_file, chunker_calls>>
    /\ UNCHANGED outsideIngest

NextIngest ==
    \/ ProcessVideo
    \/ SaveData
    \/ SaveChunks
    \/ IngestDone

SpecIngest == InitIngest /\ [][NextIngest]_vars

Falsy(fetched) == fetched.is_none \/ fetched.value = <<>>

\* C23: a video for which the transcript source gives None or an empty list
\* is recorded with transcript_chunks = None, gets no chunk record and no
\* call of the chunker, and the loop goes on to the next video.
C23_NoTranscriptNoChunks ==
    /\ Len(all_data) <= Len(to_process)
    /\ \A k \in 1..Len(all_data) :
          /\ all_data[k].video_id = to_process[k].video_id
          /\ all_data[k].transcript = to_process[k].fetched
          /\ Falsy(to_process[k].fetched) =>
                /\ all_data[k].transcript_chunks.is_none
                /\ \A n \in 1..Len(all_chunked_data) :
                      all_chunked_data[n].video_id # to_process[k].video_id
    /\ chunker_calls =
           Cardinality({ k \in 1..Len(all_data) : ~Falsy(to_process[k].fetched) })
    /\ ipc = "done" => Len(all_data) = Len(to_process)

C23_Witness ==
    /\ ipc = "done"
    /\ Len(to_process) = 3
    /\ to_process[1].fetched.is_none
    /\ to_process[2].fetched = Some(<<>>)
    /\ ~Falsy(to_process[3].fetched)
    /\ Len(all_data) = 3
    /\ all_data[1].transcript_chunks.is_none
    /\ all_data[2].transcript_chunks.is_none
    /\ chunker_calls = 1
    /\ all_chunked_data # <<>>

IsPrefix(s, t) == Len(s) <= Len(t) /\ SubSeq(t, 1, Len(s)) = s

\* C26: after every processed video both files hold the full lists
\* accumulated so far, and through every step the records a file held before
\* are a prefix of the records it holds after.
C26_SavesOnlyExtend ==
    [][ /\ IsPrefix(data_file, data_file')
        /\ IsPrefix(chunk_file, chunk_file')
        /\ (ipc = "save_chunks" /\ ipc' = "video") =>
              /\ data_file' = all_data'
              /\ chunk_file' = all_chunked_data' ]_vars

(***************************************************************************)
(* main of generate_newsletter.py from the prompt to the citation passes   *)
(* (lines 1095-1125): the list `chunks` that aggregate_search_results      *)
(* returned, not empty here (line 1089), goes to build_article_prompt and  *)
(* then, the same list, to both citation passes.  The article is whatever  *)
(* the language model writes.                                              *)
(***************************************************************************)
\* enumerate(chunks): the labels from 0
SourceLabel_FromZero(position) == position - 1

\* line 141: enumerate(chunks, 1); position is the 1-based place in the list
SourceLabel(position) == position

\* lines 141-151: the entries of source_material
build_article_prompt(chunk_list) ==
    [position \in 1..Len(chunk_list) |->
        [label |-> SourceLabel(position), transcript |-> chunk_list[position].text]]

InitArticle ==
    /\ MainIdle
    /\ ChunkerIdle
    /\ SplitterIdle
    /\ GeneratorIdle
    /\ IngestIdle
    /\ xpc = "prompt"
    /\ article = <<>>
    /\ cited_chunks \in ChunkLists \ {<<>>}
    /\ scan_pos = 0
    /\ embedded_citations = {}
    /\ article_with_videos = <<>>
    /\ replaced_citations = {}
    /\ formatted_text = <<>>
    /\ prompt = <<>>

\* line 1097
BuildPrompt ==
    /\ xpc = "prompt"
    /\ prompt' = build_article_prompt(cited_chunks)
    /\ xpc' = "generate"
    /\ UNCHANGED <<article, cited_chunks, scan_pos, embedded_citations,
                   article_with_videos, replaced_citations, formatted_text>>
    /\ UNCHANGED <<aggVars, chunkVars, splitVars, genVars, ingestVars>>

\* lines 1098-1104: the article comes back and the first pass starts
GenerateArticle ==
    /\ xpc = "generate"
    /\ article' \in Articles
    /\ scan_pos' = 1
    /\ xpc' = "html"
    /\ UNCHANGED <<cited_chunks, embedded_citations, article_with_videos,
                   replaced_citations, formatted_text>>
    /\ UNCHANGED <<aggVars, chunkVars, splitVars, genVars, ingestVars, promptVars>>

NextArticle ==
    \/ BuildPrompt
    \/ GenerateArticle
    \/ HtmlSub
    \/ HtmlReturn
    \/ WhatsappSub
    \/ WhatsappReturn

SpecArticle == InitArticle /\ [][NextArticle]_vars

\* the chunks of the ranked list whose text stands under label n in the prompt
LabelledChunks(n) ==
    { k \in 1..Len(cited_chunks) :
        \E e \in 1..Len(prompt) :
            /\ prompt[e].label = n
            /\ prompt[e].transcript = cited_chunks[k].text }

\* C24: label [i] of the prompt stands for exactly one chunk, the one at
\* 1-based position i of the ranked list, and in both citation passes the
\* rich rendering of token [i] is of that same chunk.
C24_PromptAndResolversAgree ==
    xpc \notin {"idle", "prompt"} =>
        /\ Len(prompt) = Len(cited_chunks)
        /\ \A n \in 1..Len(cited_chunks) : LabelledChunks(n) = {n}
        /\ \A n \in {0} \cup ((Len(cited_chunks) + 1)..9) :
              LabelledChunks(n) = {}
        /\ \A p \in 1..Len(article_with_videos) :
              article_with_videos[p].kind = "video-clip" =>
                  \E k \in LabelledChunks(Ordinal(p)) :
                      /\ article_with_videos[p].data_video_id
                             = cited_chunks[k].metadata.video_id
                      /\ article_with_videos[p].time_badge
                             = <<cited_chunks[k].metadata.chunk_start_time,
                                 cited_chunks[k].metadata.chunk_end_time>>
        /\ \A p \in 1..Len(formatted_text) :
              formatted_text[p].kind = "video-link" =>
                  \E k \in LabelledChunks(Ordinal(p)) :
                      /\ formatted_text[p].times
                             = <<cited_chunks[k].metadata.chunk_start_time,
                                 cited_chunks[k].metadata.chunk_end_time>>
                      /\ formatted_text[p].timestamp_url
                             = TimestampUrl(cited_chunks[k].metadata)

C24_Witness ==
    /\ xpc = "done"
    /\ Len(prompt) = 2
    /\ \E p, q \in 1..Len(article) :
          /\ p < q
          /\ Ordinal(p) = 2
          /\ Ordinal(q) = 1
          /\ article_with_videos[p].kind = "video-clip"
          /\ article_with_videos[p].data_video_id = "v2"
          /\ article_with_videos[q].kind = "video-clip"
          /\ article_with_videos[q].data_video_id = "v1"
          /\ formatted_text[p].kind = "video-link"
          /\ formatted_text[q].kind = "video-link"

(***************************************************************************)
(* The keyword loop of aggregate_search_results, one keyword at a time.    *)
(***************************************************************************)
\* the hits of the first k keywords are all in the accumulator
MergedThrough(k) ==
    \A j \in 1..k :
        /\ store[keywords[j]] # NotQueried
        /\ \A i \in 1..Len(store[keywords[j]].metadatas) :
              Position(all_results, ChunkId(store[keywords[j]].metadatas[i])) # 0

\* the accumulator names no keyword beyond the first k
NothingBeyond(k) ==
    \A r \in 1..Len(all_results) :
        \A i \in 1..Len(all_results[r].matching_keywords) :
            \E j \in 1..k : keywords[j] = all_results[r].matching_keywords[i]

\* C25: the keywords are taken in input order, one embedding call and then one
\* query each; when keyword k is embedded the hits of keywords 1..k-1, and of
\* no later keyword, are merged; m keywords make m embedding calls and m
\* queries, a repeated keyword included.
C25_OneEmbeddingOneQueryInOrder ==
    /\ pc = "loop" =>
          /\ embed_calls = kw_i - 1
          /\ query_calls = kw_i - 1
          /\ MergedThrough(kw_i - 1)
          /\ NothingBeyond(kw_i - 1)
    /\ pc = "query" =>
          /\ kw_i <= Len(keywords)
          /\ embed_calls = kw_i
          /\ query_calls = kw_i - 1
          /\ MergedThrough(kw_i - 1)
          /\ NothingBeyond(kw_i - 1)
    /\ pc = "returned" =>
          /\ embed_calls = Len(keywords)
          /\ query_calls = Len(keywords)
          /\ MergedThrough(Len(keywords))

C25_Witness ==
    /\ pc = "returned"
    /\ Len(keywords) = 2
    /\ keywords[1] = keywords[2]
    /\ embed_calls = 2
    /\ query_calls = 2
    /\ all_results # <<>>

(***************************************************************************)
(* The list aggregate_search_results returns, against the hits it saw.     *)
(***************************************************************************)
\* keywords the call searched
Searched == { keywords[j] : j \in 1..Len(keywords) }

\* the identities among all hits of all searched keywords
HitIdentities ==
    UNION { { ChunkId(store[kw].metadatas[i]) : i \in 1..Len(store[kw].metadatas) }
            : kw \in Searched }

\* keyword kw had a hit of this identity with this score
HitWithScore(kw, chunk_id, score) ==
    \E i \in 1..Len(store[kw].metadatas) :
        /\ ChunkId(store[kw].metadatas[i]) = chunk_id
        /\ RelevanceScore(store[kw].distances[i]) = score

\* C28: the returned list has one entry per (video_id, chunk_start_time) seen
\* among the hits, and every entry's matching_keywords is non-empty, free of
\* duplicates and holds the keyword whose hit gave the stored score.
C28_OneEntryPerIdentity ==
    pc = "returned" =>
        /\ \A a, b \in 1..Len(unique_chunks) :
              a # b => unique_chunks[a].chunk_id # unique_chunks[b].chunk_id
        /\ Len(unique_chunks) = Cardinality(HitIdentities)
        /\ { unique_chunks[a].chunk_id : a \in 1..Len(unique_chunks) } = HitIdentities
        /\ \A a \in 1..Len(unique_chunks) :
              LET mk == unique_chunks[a].matching_keywords IN
              /\ mk # <<>>
              /\ \A i, j \in 1..Len(mk) : i # j => mk[i] # mk[j]
              /\ \E i \in 1..Len(mk) :
                    HitWithScore(mk[i], unique_chunks[a].chunk_id,
                                 unique_chunks[a].relevance_score)

C28_Witness ==
    /\ pc = "returned"
    /\ keywords = <<"A", "B">>
    /\ Len(store["A"].metadatas) = 2
    /\ Len(store["B"].metadatas) = 2
    /\ Len(unique_chunks) = 2
    /\ \E a \in 1..2 : Len(unique_chunks[a].matching_keywords) = 2
    /\ \E a \in 1..2 : unique_chunks[a].matching_keywords = <<"B">>

(***************************************************************************)
(* aggregate_search_results over the same index with the keywords in       *)
(* another order.                                                          *)
(***************************************************************************)
\* the keyword lists that are permutations of the list searched
Reorderings ==
    { [i \in 1..Len(keywords) |-> keywords[f[i]]] : f \in Permutations(1..Len(keywords)) }

\* the (chunk_id, relevance_score) pairs of a returned list
IdsAndScores(chunk_list) ==
    { <<chunk_list[a].chunk_id, chunk_list[a].relevance_score>> :
          a \in 1..Len(chunk_list) }

\* C29: the chunk_ids returned and the relevance_score of each are the same
\* for every order of the keyword list.
C29_OrderIndependent ==
    pc = "returned" =>
        /\ unique_chunks = aggregate_search_results(keywords, store)
        /\ \A reordered \in Reorderings :
              IdsAndScores(aggregate_search_results(reordered, store))
                  = IdsAndScores(unique_chunks)

\* both keywords hit the same chunk with different scores, and the other
\* order returns a different list
C29_Witness ==
    /\ pc = "returned"
    /\ keywords = <<"A", "B">>
    /\ \E i \in 1..Len(store["A"].metadatas), j \in 1..Len(store["B"].metadatas) :
          /\ ChunkId(store["A"].metadatas[i]) = ChunkId(store["B"].metadatas[j])
          /\ store["A"].distances[i] < store["B"].distances[j]
    /\ aggregate_search_results(<<"B", "A">>, store) # unique_chunks

(***************************************************************************)
(* The number of windows chunk_transcript_by_time examines.                *)
(***************************************************************************)
Floor(a, b) == a \div b

Ceil(a, b) == (a + b - 1) \div b

\* the loop is over, for a transcript that is not empty: floor(T_max /
\* chunk_duration) + 1 windows were examined, the last of them starting at
\* T_max when chunk_duration divides it, none from T_max on gave a chunk and
\* there are at most ceil(T_max / chunk_duration) chunks
WindowsCounted ==
    (cpc = "done" /\ transcript_data # <<>>) =>
        /\ windows_examined = Floor(max_end_time, chunk_duration) + 1
        /\ current_chunk_start = windows_examined * chunk_duration
        /\ max_end_time % chunk_duration = 0 =>
              current_chunk_start - chunk_duration = max_end_time
        /\ \A n \in 1..Len(chunks) : chunks[n].start_time < max_end_time
        /\ Len(chunks) <= Ceil(max_end_time, chunk_duration)

\* C27: every call of chunk_transcript_by_time ends, after exactly
\* floor(T_max / chunk_duration) + 1 windows; a window starting at T_max is
\* examined and gives no chunk, and there are at most
\* ceil(T_max / chunk_duration) chunks.
C27_TerminatesAfterAllWindows ==
    /\ []WindowsCounted
    /\ <>(cpc = "done")

\* chunk_duration divides T_max: the window starting at T_max was examined
C27_Witness ==
    /\ cpc = "done"
    /\ transcript_data # <<>>
    /\ max_end_time = 2 * chunk_duration
    /\ windows_examined = 3
    /\ Len(chunks) = 2

====
